---- MODULE Spec2Model ----
(***************************************************************************)
(* Form-field autofill engine, its answer bank and the session controller  *)
(* of internship-assistant (src/poc/answer_bank.py, src/poc/poc_autofill.py *)
(* and src/app/web/server.py) as a state machine.                          *)
(*                                                                         *)
(* Strings are TLA+ strings; a character is a string of length one.        *)
(* Python's None is the empty string NoValue wherever the code only tests  *)
(* truthiness (`if value:`, `if company:`), and the record NONE where the  *)
(* code distinguishes a missing result from a string.                      *)
(***************************************************************************)
EXTENDS Integers, Sequences, FiniteSets, TLC

(***************************************************************************)
(* Text helpers (Python str methods used by the code)                      *)
(***************************************************************************)

UpperChars == "ABCDEFGHIJKLMNOPQRSTUVWXYZ"
LowerChars == "abcdefghijklmnopqrstuvwxyz"
DigitChars == "0123456789"

\* the character at position i of s
CharAt(s, i) == SubSeq(s, i, i)

\* the set of characters of s
CharSet(s) == {CharAt(s, i) : i \in 1..Len(s)}

\* position of character c in s, 0 when absent
IndexOfChar(s, c) ==
    IF \E i \in 1..Len(s) : CharAt(s, i) = c
    THEN CHOOSE i \in 1..Len(s) : CharAt(s, i) = c
    ELSE 0

\* Python's \s on the characters the model uses
IsSpace(c) == c \in {" ", "\t", "\n"}

\* Python's \w (after lowercasing or not)
IsWord(c) == c \in CharSet(UpperChars) \cup CharSet(LowerChars) \cup CharSet(DigitChars) \cup {"_"}

\* the lower-case letter of each upper-case letter
LowerOf == [c \in CharSet(UpperChars) |-> CharAt(LowerChars, IndexOfChar(UpperChars, c))]

\* str.lower() on one character
LowerChar(c) == IF c \in DOMAIN LowerOf THEN LowerOf[c] ELSE c

RECURSIVE MapLower(_)
\* str.lower()
MapLower(s) ==
    IF Len(s) = 0 THEN "" ELSE LowerChar(CharAt(s, 1)) \o MapLower(SubSeq(s, 2, Len(s)))

RECURSIVE LStrip(_)
LStrip(s) ==
    IF Len(s) > 0 /\ IsSpace(CharAt(s, 1)) THEN LStrip(SubSeq(s, 2, Len(s))) ELSE s

RECURSIVE RStrip(_)
RStrip(s) ==
    IF Len(s) > 0 /\ IsSpace(CharAt(s, Len(s))) THEN RStrip(SubSeq(s, 1, Len(s) - 1)) ELSE s

\* str.strip()
Strip(s) == RStrip(LStrip(s))

\* `lit in s` at position i
OccursAt(s, lit, i) == i >= 1 /\ i + Len(lit) - 1 <= Len(s) /\ SubSeq(s, i, i + Len(lit) - 1) = lit

\* Python's `lit in s`
Contains(s, lit) == \E i \in 1..(Len(s) - Len(lit) + 1) : OccursAt(s, lit, i)

RECURSIVE SubNonWord(_)
\* re.sub(r'[^\w\s]', ' ', q)
SubNonWord(s) ==
    IF Len(s) = 0 THEN ""
    ELSE LET c == CharAt(s, 1)
         IN  (IF IsWord(c) \/ IsSpace(c) THEN c ELSE " ") \o SubNonWord(SubSeq(s, 2, Len(s)))

RECURSIVE CollapseSpace(_)
\* re.sub(r'\s+', ' ', q): every maximal run of whitespace becomes one space
CollapseSpace(s) ==
    IF Len(s) = 0 THEN ""
    ELSE LET c == CharAt(s, 1)
             rest == SubSeq(s, 2, Len(s))
         IN  IF IsSpace(c)
             THEN " " \o CollapseSpace(LStrip(rest))
             ELSE c \o CollapseSpace(rest)

(***************************************************************************)
(* Answer bank: pure functions                                             *)
(***************************************************************************)

\* AnswerBank.normalize_question
normalize_question(question) ==
    LET q1 == Strip(MapLower(question))
        q2 == SubNonWord(q1)
    IN  CollapseSpace(q2)

(***************************************************************************)
(* DROPDOWN_PATTERNS: each regular expression is a chain of alternations   *)
(* joined by `.*`. A pattern is the sequence of its groups, a group the    *)
(* set of literal strings its alternation (optional characters expanded)   *)
(* matches. Order is the dict's order: get_pattern_key returns the first   *)
(* pattern that matches.                                                   *)
(***************************************************************************)
DROPDOWN_PATTERNS == <<
    [groups |-> << {"authorized", "authorization", "legally", "permit"},
                   {"work", "employment"},
                   {"us", "u.s.", "united states"} >>,                     key |-> "work_auth_us"],
    [groups |-> << {"require", "need"}, {"sponsor", "visa"} >>,            key |-> "requires_sponsorship"],
    [groups |-> << {"citizen", "citizenship"} >>,                          key |-> "citizenship"],
    [groups |-> << {"graduation", "graduate", "grad"},
                   {"date", "year", "when"} >>,                            key |-> "graduation_date"],
    [groups |-> << {"degree", "education level"} >>,                       key |-> "degree_type"],
    [groups |-> << {"major", "field of study", "concentration"} >>,        key |-> "major"],
    [groups |-> << {"school", "university", "college", "institution"} >>,  key |-> "school"],
    [groups |-> << {"gpa", "grade point"} >>,                              key |-> "gpa"],
    [groups |-> << {"gender", "sex"} >>,                                   key |-> "gender"],
    [groups |-> << {"race", "ethnic", "ethnicity"} >>,                     key |-> "ethnicity"],
    [groups |-> << {"veteran", "military"} >>,                             key |-> "veteran_status"],
    [groups |-> << {"disability", "disabled"} >>,                          key |-> "disability_status"],
    [groups |-> << {"pronoun", "pronouns"} >>,                             key |-> "pronouns"],
    [groups |-> << {"hear", "heard", "find", "found"},
                   {"about", "us", "position", "job", "role"} >>,          key |-> "referral_source"],
    [groups |-> << {"start", "available", "availability"},
                   {"date", "when"} >>,                                    key |-> "start_date"],
    [groups |-> << {"salary", "compensation", "pay"},
                   {"expectation", "requirement", "desired"} >>,           key |-> "salary_expectation"],
    [groups |-> << {"relocat", "willing to move"} >>,                      key |-> "willing_to_relocate"],
    [groups |-> << {"remote", "hybrid", "onsite", "on-site",
                    "inperson", "in-person"} >>,                           key |-> "work_location_preference"],
    [groups |-> << {"year", "years"}, {"experience"} >>,                   key |-> "years_experience"],
    [groups |-> << {"proficien", "skill level", "expertise"},
                   {"programming", "coding", "language"} >>,               key |-> "programming_proficiency"]
>>

\* `.` does not match a newline: no newline in s[from..to]
NoNewline(s, from, to) == \A k \in from..to : CharAt(s, k) # "\n"

RECURSIVE MatchGroups(_, _, _, _)
\* whether groups[g..] match s with the first literal starting at or after
\* position `from`; between two groups `.*` spans any run without a newline
MatchGroups(groups, g, s, from) ==
    IF g > Len(groups) THEN TRUE
    ELSE \E lit \in groups[g] :
            \E i \in from..(Len(s) - Len(lit) + 1) :
                /\ OccursAt(s, lit, i)
                /\ (g = 1 \/ NoNewline(s, from, i - 1))
                /\ MatchGroups(groups, g + 1, s, i + Len(lit))

\* re.search(pattern, s)
ReSearch(groups, s) == MatchGroups(groups, 1, s, 1)

\* the missing result of a lookup (Python's None where a string is expected)
NoValue == ""

\* AnswerBank.get_pattern_key: the key of the first pattern found in the
\* lowercased (not normalized) question, NoValue for None
get_pattern_key(question) ==
    LET q_lower == MapLower(question)
        hits == {p \in 1..Len(DROPDOWN_PATTERNS) : ReSearch(DROPDOWN_PATTERNS[p].groups, q_lower)}
    IN  IF hits = {} THEN NoValue
        ELSE DROPDOWN_PATTERNS[CHOOSE p \in hits : \A r \in hits : p <= r].key

(***************************************************************************)
(* difflib.SequenceMatcher(None, a, b).ratio() as the code calls it: no    *)
(* junk, and (both strings shorter than 200 characters) no "popular"       *)
(* characters. Positions are 1-based, ranges [lo, hi).                     *)
(***************************************************************************)

RECURSIVE CommonRun(_, _, _, _, _, _)
\* length of the longest common run of a[i..ahi) and b[j..bhi) starting at (i, j)
CommonRun(a, i, ahi, b, j, bhi) ==
    IF i < ahi /\ j < bhi /\ CharAt(a, i) = CharAt(b, j)
    THEN 1 + CommonRun(a, i + 1, ahi, b, j + 1, bhi)
    ELSE 0

\* SequenceMatcher.find_longest_match: the longest matching block of
\* a[alo..ahi) and b[blo..bhi); of those the one starting earliest in a, and
\* of those the one starting earliest in b
find_longest_match(a, alo, ahi, b, blo, bhi) ==
    LET pairs == (alo..(ahi - 1)) \X (blo..(bhi - 1))
        run(p) == CommonRun(a, p[1], ahi, b, p[2], bhi)
        size == IF pairs = {} THEN 0
                ELSE LET best == CHOOSE p \in pairs : \A r \in pairs : run(p) >= run(r)
                     IN  run(best)
    IN  IF size = 0 THEN [i |-> alo, j |-> blo, size |-> 0]
        ELSE LET longest == {p \in pairs : run(p) = size}
                 besti == CHOOSE i \in {p[1] : p \in longest} : \A p \in longest : i <= p[1]
                 bestj == CHOOSE j \in {p[2] : p \in {r \in longest : r[1] = besti}} :
                              \A p \in {r \in longest : r[1] = besti} : j <= p[2]
             IN  [i |-> besti, j |-> bestj, size |-> size]

RECURSIVE MatchingChars(_, _, _, _, _, _)
\* SequenceMatcher.get_matching_blocks: the total size of the blocks found by
\* taking the longest match and recursing to its left and to its right
MatchingChars(a, alo, ahi, b, blo, bhi) ==
    LET m == find_longest_match(a, alo, ahi, b, blo, bhi)
    IN  IF m.size = 0 THEN 0
        ELSE m.size
             + (IF alo < m.i /\ blo < m.j
                THEN MatchingChars(a, alo, m.i, b, blo, m.j) ELSE 0)
             + (IF m.i + m.size < ahi /\ m.j + m.size < bhi
                THEN MatchingChars(a, m.i + m.size, ahi, b, m.j + m.size, bhi) ELSE 0)

\* ratio() = 2.0 * matches / (len(a) + len(b)), 1.0 for two empty strings,
\* kept as the fraction [num, den] (den = 1 for the two empty strings)
Ratio(a, b) ==
    IF Len(a) + Len(b) = 0 THEN [num |-> 1, den |-> 1]
    ELSE [num |-> 2 * MatchingChars(a, 1, Len(a) + 1, b, 1, Len(b) + 1), den |-> Len(a) + Len(b)]

\* x > y on fractions with positive denominators
RatioGreater(x, y) == x.num * y.den > y.num * x.den

\* best_ratio = 0.7: the similarity a fuzzy match has to exceed. The float
\* 2.0*m/n compares to 0.7 as the fraction does: IEEE division is correctly
\* rounded, so 2.0*m/n = 0.7 exactly when 20m = 7n.
FuzzyThreshold == [num |-> 7, den |-> 10]

(***************************************************************************)
(* Python dicts keep insertion order (the fuzzy scan depends on it): a     *)
(* dict is a sequence of [k, v] entries with distinct keys.                *)
(***************************************************************************)
EmptyDict == << >>

DictHas(d, key) == \E i \in 1..Len(d) : d[i].k = key

DictGet(d, key) == d[CHOOSE i \in 1..Len(d) : d[i].k = key].v

\* d[key] = value: an existing key keeps its place, a new one goes last
DictSet(d, key, value) ==
    IF DictHas(d, key)
    THEN [i \in 1..Len(d) |-> IF d[i].k = key THEN [k |-> key, v |-> value] ELSE d[i]]
    ELSE Append(d, [k |-> key, v |-> value])

\* the bank of a first run: AnswerBank._load without a file
EmptyBank == [exact |-> EmptyDict, patterns |-> EmptyDict, custom |-> EmptyDict]

\* answers.json before it was ever written
NoFile == [exists |-> FALSE, content |-> EmptyBank]

\* AnswerBank._load: the file's JSON object, or the three empty layers
\* (json.load of what json.dump wrote gives back the same dicts of strings,
\* in the same order)
Load(file) == IF file.exists THEN file.content ELSE EmptyBank

\* AnswerBank.save: the whole bank replaces the file's content
Save(bank) == [exists |-> TRUE, content |-> bank]

(***************************************************************************)
(* Inputs of the answer-bank specification                                 *)
(***************************************************************************)

\* question texts: two wordings of one pattern key, a question with and
\* without its question mark, and neighbours of "Shirt size" whose
\* similarity to it is below, at and above 0.7
Questions == {"Shirt size", "Shirt size?", "Shoe size?", "Shirt type", "Gender", "Your gender?"}

Answers == {"M", "L"}

\* company names as extract_company_from_url gives them; NoValue is None
Companies == {NoValue, "Acme"}

\* answers.json as a previous run (or the user's editor) may have left it
SeedFiles ==
    { NoFile,
      Save([EmptyBank EXCEPT !.patterns = <<[k |-> "gender", v |-> "L"]>>]),
      Save([EmptyBank EXCEPT !.exact = <<[k |-> "shirt size", v |-> "L"]>>]),
      Save([exact |-> <<[k |-> "shoe size ", v |-> "M"], [k |-> "shirt size ", v |-> "L"]>>,
            patterns |-> EmptyDict,
            custom |-> <<[k |-> "acme", v |-> <<[k |-> "shirt type", v |-> "M"]>>]>>]) }

\* how many store_answer calls a behaviour makes
MaxStores == 2

\* the labels of the form fields the engine meets
Labels ==
    {"First Name", "Email", "Shirt size", "Shirt type", "Gender", "Resume", "Work Auth", "Unknown"}

\* every text a behaviour passes to the bank
Texts == Questions \cup Labels


(***************************************************************************)
(* The pure functions are evaluated once per text of the model: the tables *)
(* below hold normalize_question, get_pattern_key and ratio() for every    *)
(* text a behaviour can pass, and the operators that follow read them.     *)
(***************************************************************************)
RECURSIVE NormalizeRows(_)
NormalizeRows(texts) ==
    IF texts = {} THEN << >>
    ELSE LET q == CHOOSE q \in texts : TRUE
         IN  (q :> normalize_question(q)) @@ NormalizeRows(texts \ {q})

NormalizeTable == NormalizeRows(Texts)

Normalized(q) == NormalizeTable[q]

RECURSIVE PatternKeyRows(_)
PatternKeyRows(texts) ==
    IF texts = {} THEN << >>
    ELSE LET q == CHOOSE q \in texts : TRUE
         IN  (q :> get_pattern_key(q)) @@ PatternKeyRows(texts \ {q})

PatternKeyTable == PatternKeyRows(Texts)

PatternKey(q) == PatternKeyTable[q]

\* every key the exact layer can hold
ExactKeys ==
    {NormalizeTable[q] : q \in Texts}
        \cup UNION {{f.content.exact[i].k : i \in 1..Len(f.content.exact)} : f \in SeedFiles}

RECURSIVE RatioRows(_)
RatioRows(pairs) ==
    IF pairs = {} THEN << >>
    ELSE LET p == CHOOSE p \in pairs : TRUE
         IN  (p :> Ratio(p[1], p[2])) @@ RatioRows(pairs \ {p})

RatioTable == RatioRows(ExactKeys \X ExactKeys)

Similarity(a, b) == IF <<a, b>> \in ExactKeys \X ExactKeys THEN RatioTable[<<a, b>>] ELSE Ratio(a, b)

\* the result of a lookup that found nothing (Python's None)
NoAnswer == [layer |-> "none", value |-> NoValue]

RECURSIVE FuzzyScan(_, _, _, _, _)
\* the loop of get_answer over self.answers["exact"].items(): an entry
\* replaces the best so far only when its ratio is strictly greater
FuzzyScan(exact, i, normalized, best_ratio, best_match) ==
    IF i > Len(exact) THEN best_match
    ELSE LET ratio == Similarity(normalized, exact[i].k)
         IN  IF RatioGreater(ratio, best_ratio)
             THEN FuzzyScan(exact, i + 1, normalized, ratio, [layer |-> "fuzzy", value |-> exact[i].v])
             ELSE FuzzyScan(exact, i + 1, normalized, best_ratio, best_match)

\* get_answer with the company-scoped layer consulted before the pattern layer
get_answer_custom_first(bank, question, company) ==
    LET normalized == Normalized(question)
        pattern_key == PatternKey(question)
        company_key == MapLower(company)
    IN  IF DictHas(bank.exact, normalized)
        THEN [layer |-> "exact", value |-> DictGet(bank.exact, normalized)]
        ELSE IF /\ company # NoValue
                /\ DictHas(bank.custom, company_key)
                /\ DictHas(DictGet(bank.custom, company_key), normalized)
        THEN [layer |-> "custom", value |-> DictGet(DictGet(bank.custom, company_key), normalized)]
        ELSE IF pattern_key # NoValue /\ DictHas(bank.patterns, pattern_key)
        THEN [layer |-> "pattern", value |-> DictGet(bank.patterns, pattern_key)]
        ELSE FuzzyScan(bank.exact, 1, normalized, FuzzyThreshold, NoAnswer)

\* AnswerBank.get_answer: the answer and the layer it came from
get_answer(bank, question, company) ==
    LET normalized == Normalized(question)
        pattern_key == PatternKey(question)
        company_key == MapLower(company)
    IN  IF DictHas(bank.exact, normalized)
        THEN [layer |-> "exact", value |-> DictGet(bank.exact, normalized)]
        ELSE IF pattern_key # NoValue /\ DictHas(bank.patterns, pattern_key)
        THEN [layer |-> "pattern", value |-> DictGet(bank.patterns, pattern_key)]
        ELSE IF /\ company # NoValue
                /\ DictHas(bank.custom, company_key)
                /\ DictHas(DictGet(bank.custom, company_key), normalized)
        THEN [layer |-> "custom", value |-> DictGet(DictGet(bank.custom, company_key), normalized)]
        ELSE FuzzyScan(bank.exact, 1, normalized, FuzzyThreshold, NoAnswer)

\* store_answer keyed by the lowercased question instead of the normalized one
StoreInMemoryRawKey(bank, question, answer, company, is_pattern) ==
    LET raw == MapLower(question)
        pattern_key == PatternKey(question)
        company_key == MapLower(company)
    IN  IF is_pattern
        THEN IF pattern_key # NoValue
             THEN [bank EXCEPT !.patterns = DictSet(@, pattern_key, answer)]
             ELSE bank
        ELSE IF company # NoValue
        THEN LET of_company == IF DictHas(bank.custom, company_key)
                               THEN DictGet(bank.custom, company_key) ELSE EmptyDict
             IN  [bank EXCEPT !.custom = DictSet(@, company_key, DictSet(of_company, raw, answer))]
        ELSE [bank EXCEPT !.exact = DictSet(@, raw, answer)]

\* the assignments of AnswerBank.store_answer, before self.save()
StoreInMemory(bank, question, answer, company, is_pattern) ==
    LET normalized == Normalized(question)
        pattern_key == PatternKey(question)
        company_key == MapLower(company)
    IN  IF is_pattern
        THEN IF pattern_key # NoValue
             THEN [bank EXCEPT !.patterns = DictSet(@, pattern_key, answer)]
             ELSE bank
        ELSE IF company # NoValue
        THEN LET of_company == IF DictHas(bank.custom, company_key)
                               THEN DictGet(bank.custom, company_key) ELSE EmptyDict
             IN  [bank EXCEPT !.custom = DictSet(@, company_key, DictSet(of_company, normalized, answer))]
        ELSE [bank EXCEPT !.exact = DictSet(@, normalized, answer)]

\* store_answer that writes the file before it assigns
store_answer_save_first(store, question, answer, company, is_pattern) ==
    LET bank == StoreInMemory(store.answers, question, answer, company, is_pattern)
    IN  [answers |-> bank, file |-> Save(store.answers)]

\* AnswerBank.store_answer on the process's bank and its file: the
\* assignment, then self.save()
store_answer(store, question, answer, company, is_pattern) ==
    LET bank == StoreInMemory(store.answers, question, answer, company, is_pattern)
    IN  [answers |-> bank, file |-> Save(bank)]


(***************************************************************************)
(* The browser side: documents, their elements, and the sites behind the   *)
(* links the operator opens.  Playwright and the browser are the           *)
(* environment of the program; what they do on a call is written where the *)
(* call is made.                                                           *)
(***************************************************************************)

\* the module under which the engine's own code refers to FieldType, and
\* the one submit_autofill_answers imports FieldType and FormField from
EngineModule == "poc_autofill"

ServerImportModule == "poc.poc_autofill"

\* a member of the FieldType enum of one import of the file; members of
\* two imports of the same file never compare equal
FieldType(module, value) == [module |-> module, value |-> value]

NoOptions == << >>

\* an element of a document, with the attributes the engine reads
Element(id, tag, type, name, placeholder, role, class, label, options, in_form, handles_enter) ==
    [id |-> id, tag |-> tag, type |-> type, name |-> name, placeholder |-> placeholder,
     role |-> role, class |-> class, label |-> label, options |-> options,
     in_form |-> in_form, handles_enter |-> handles_enter, frame |-> NoValue,
     data |-> << >>, aria_label |-> NoValue, autocomplete |-> NoValue, path |-> tag,
     covered |-> FALSE]

\* the element with its data-* attributes (name and value, in the order of
\* the markup), its aria-label, its autocomplete attribute and the path
\* the structural strategy computes for it (empty when the script fails)
Attributed(el, data, aria_label, autocomplete, path) ==
    [el EXCEPT !.data = data, !.aria_label = aria_label, !.autocomplete = autocomplete,
               !.path = path]

\* the element inside the frame whose URL is frame_url
Framed(el, frame_url) == [el EXCEPT !.frame = frame_url]

\* the element under another one that receives the pointer events in its
\* place (the placeholder or the value container a select widget lays over
\* its input): element.click() waits for the element to receive events and
\* raises at its timeout, element.fill() does not make that check
Covered(el) == [el EXCEPT !.covered = TRUE]

\* the URL of the frame a job board embeds its application form in
EmbedFrame == "https://boards.greenhouse.io/embed/job_app?for=globex"

NoApply == [kind |-> "none", target |-> "none", new_tab |-> FALSE]

\* test_forms/greenhouse_mock.html, as the end-to-end scenario describes it:
\* a text input with id first_name, a text input with name email, and a
\* select with id work_auth and the options Yes and No; the labels are the
\* ones _find_label derives from the id or the name
MockForm ==
    [elements |->
        << Element("first_name", "input", "text", "", "", "", "", "First Name", NoOptions, TRUE, FALSE),
           Element("", "input", "text", "email", "", "", "", "Email", NoOptions, TRUE, FALSE),
           Element("work_auth", "select", "", "", "", "", "", "Work Auth",
                   << <<"Yes", "Yes">>, <<"No", "No">> >>, TRUE, FALSE) >>,
     apply |-> NoApply]

\* the documents of the model
\*   listing  a job description with an Apply link that opens the form in
\*            a new tab
\*   form     an application form: two profile fields, a select, a combobox
\*            widget whose script handles the Enter key, and a submit
\*            button labelled Apply Now
\*   quick    a form whose only question is a plain text input styled as a
\*            select, no script behind it
\*   oneclick a form with a resume upload and an Apply button of type submit
\*   embed    a job page whose application form sits in a frame: a select
\*            whose first two options have an empty value attribute, and a
\*            combobox widget whose input lies under its placeholder
\*   mock     the local mock form of the mock test mode
\*   thanks   what the site shows once a form has been submitted
\*   blank    the empty page of a browser that has not navigated yet
Documents ==
    [ listing |->
        [elements |-> << >>,
         apply |-> [kind |-> "link", target |-> "form", new_tab |-> TRUE]],
      form |->
        [elements |->
            << Element("first_name", "input", "text", "first_name", "", "", "", "First Name", NoOptions, TRUE, FALSE),
               Element("email", "input", "email", "email", "", "", "", "Email", NoOptions, TRUE, FALSE),
               Element("size", "select", "", "size", "", "", "", "Shirt size",
                       << <<"", "Please select">>, <<"M", "Medium">>, <<"L", "Large">> >>, TRUE, FALSE),
               Element("type", "input", "text", "type", "", "combobox", "select__input", "Shirt type",
                       NoOptions, TRUE, TRUE) >>,
         apply |-> [kind |-> "submit", target |-> "thanks", new_tab |-> FALSE]],
      quick |->
        [elements |->
            << Element("gender", "input", "text", "gender", "Select", "", "form-select", "Gender",
                       NoOptions, TRUE, FALSE),
               Element("q1", "input", "tel", "", "", "", "", "", NoOptions, TRUE, FALSE) >>,
         apply |-> NoApply],
      oneclick |->
        [elements |->
            << Element("cv", "input", "file", "cv", "", "", "", "Resume", NoOptions, TRUE, FALSE) >>,
         apply |-> [kind |-> "submit", target |-> "thanks", new_tab |-> FALSE]],
      embed |->
        [elements |->
            << Framed(Element("team", "select", "", "team", "", "", "", "Shirt size",
                              << <<"", "Choose one">>, <<"", "Large">>, <<"S", "Small">> >>,
                              TRUE, FALSE), EmbedFrame),
               Framed(Covered(Element("type", "input", "text", "type", "", "combobox",
                                      "select__input", "Shirt type", NoOptions, TRUE, TRUE)),
                      EmbedFrame) >>,
         apply |-> NoApply],
      mock |-> MockForm,
      thanks |->
        [elements |-> << >>, apply |-> NoApply],
      blank |->
        [elements |-> << >>, apply |-> NoApply] ]

DocumentNames == DOMAIN Documents

\* the file:// URL run_mock_form_test builds for a mock form
MockUrl == "file:///poc/test_forms/greenhouse_mock.html"

\* the links the operator can open and the mock form's URL, and what the
\* site answers: a document, or nothing (the navigation times out)
Site ==
    [ u \in {"https://boards.greenhouse.io/acme/1", "https://jobs.lever.co/acme/2",
             "https://jobs.lever.co/initech/3", "https://boards.greenhouse.io/down/4",
             "https://boards.greenhouse.io/globex/5", MockUrl} |->
        CASE u = "https://boards.greenhouse.io/acme/1" -> "listing"
          [] u = "https://jobs.lever.co/acme/2" -> "quick"
          [] u = "https://jobs.lever.co/initech/3" -> "oneclick"
          [] u = "https://boards.greenhouse.io/globex/5" -> "embed"
          [] u = MockUrl -> "mock"
          [] OTHER -> "unreachable" ]

\* the links the operator opens
Urls == DOMAIN Site \ {MockUrl}

\* ApplicantProfile as load_from_file returns it: the fields the resolver
\* reads, with the resume of the applicant configured and the phone number
\* and the links left empty in profile.json
Profile ==
    [first_name |-> "Ada", last_name |-> "Lovelace", full_name |-> "Ada Lovelace",
     email |-> "ada@example.com", phone |-> NoValue, linkedin |-> NoValue,
     github |-> NoValue, website |-> NoValue, resume_path |-> "/home/ada/resume.pdf",
     cover_letter |-> NoValue, work_authorization |-> "yes"]

\* a FormField as _detect_fields builds it
FormField(field_type, label, selector, name, iframe_url) ==
    [field_type |-> field_type, label |-> label, selector |-> selector, name |-> name,
     iframe_url |-> iframe_url]

\* the field type _detect_fields gives an element, from its tag and type
DetectedType(el) ==
    IF el.tag = "select" THEN "select"
    ELSE IF el.tag = "textarea" THEN "textarea"
    ELSE IF el.type = "email" THEN "email"
    ELSE IF el.type = "tel" THEN "tel"
    ELSE IF el.type = "url" THEN "url"
    ELSE IF el.type = "file" THEN "file"
    ELSE IF el.type = "checkbox" THEN "checkbox"
    ELSE IF el.type = "radio" THEN "radio"
    ELSE "text"

\* _build_selector for an element with an id
IdSelector(el) == "#" \o el.id

RECURSIVE Escaped(_)
\* .replace('"', '\\"')
Escaped(s) ==
    IF Len(s) = 0 THEN ""
    ELSE (IF CharAt(s, 1) = "\"" THEN "\\\"" ELSE CharAt(s, 1)) \o Escaped(SubSeq(s, 2, Len(s)))

\* an attribute selector
AttrSelector(attr_name, attr_val) == "[" \o attr_name \o "=\"" \o attr_val \o "\"]"

\* the data attributes the third strategy prefers, in its order
PreferredData == <<"data-automation-id", "data-testid", "data-field", "data-qa">>

\* the third strategy of _build_selector: the first preferred data
\* attribute the element has, else its first data attribute
DataSelector(data) ==
    LET preferred == {p \in 1..Len(PreferredData) :
                         \E i \in 1..Len(data) : data[i][1] = PreferredData[p]}
        first == PreferredData[CHOOSE p \in preferred : \A q \in preferred : p <= q]
    IN  IF preferred # {}
        THEN AttrSelector(first, data[CHOOSE i \in 1..Len(data) : data[i][1] = first][2])
        ELSE AttrSelector(data[1][1], data[1][2])

\* _build_selector with the name tried before the id
_build_selector_name_first(el) ==
    IF el.name # NoValue THEN AttrSelector("name", el.name)
    ELSE IF el.id # NoValue THEN IdSelector(el)
    ELSE IF el.data # << >> THEN DataSelector(el.data)
    ELSE IF el.aria_label # NoValue THEN AttrSelector("aria-label", Escaped(el.aria_label))
    ELSE IF el.placeholder # NoValue THEN AttrSelector("placeholder", Escaped(el.placeholder))
    ELSE IF el.autocomplete \notin {NoValue, "off", "on"}
    THEN el.tag \o AttrSelector("autocomplete", el.autocomplete)
    ELSE el.path

\* _build_selector: the id, the name, a data attribute, the aria-label,
\* the placeholder, an autocomplete value other than off and on, the
\* structural path; empty when none gives a selector
_build_selector(el) ==
    IF el.id # NoValue THEN IdSelector(el)
    ELSE IF el.name # NoValue THEN AttrSelector("name", el.name)
    ELSE IF el.data # << >> THEN DataSelector(el.data)
    ELSE IF el.aria_label # NoValue THEN AttrSelector("aria-label", Escaped(el.aria_label))
    ELSE IF el.placeholder # NoValue THEN AttrSelector("placeholder", Escaped(el.placeholder))
    ELSE IF el.autocomplete \notin {NoValue, "off", "on"}
    THEN el.tag \o AttrSelector("autocomplete", el.autocomplete)
    ELSE el.path

\* str.upper() on one character
UpperChar(c) ==
    IF \E u \in DOMAIN LowerOf : LowerOf[u] = c
    THEN CHOOSE u \in DOMAIN LowerOf : LowerOf[u] = c
    ELSE c

IsLetter(c) == c \in CharSet(UpperChars) \cup CharSet(LowerChars)

RECURSIVE Title(_, _)
\* str.title(): a letter after a character that is no letter is upper
\* case, every other letter lower case (after_letter: the character before
\* s was one)
Title(s, after_letter) ==
    IF Len(s) = 0 THEN ""
    ELSE (IF after_letter THEN LowerChar(CharAt(s, 1)) ELSE UpperChar(CharAt(s, 1)))
         \o Title(SubSeq(s, 2, Len(s)), IsLetter(CharAt(s, 1)))

RECURSIVE Spaced(_)
\* .replace("_", " ").replace("-", " ")
Spaced(s) ==
    IF Len(s) = 0 THEN ""
    ELSE (IF CharAt(s, 1) \in {"_", "-"} THEN " " ELSE CharAt(s, 1)) \o Spaced(SubSeq(s, 2, Len(s)))

RECURSIVE Doubled(_)
\* .replace("--", " ")
Doubled(s) ==
    IF Len(s) < 2 THEN s
    ELSE IF SubSeq(s, 1, 2) = "--" THEN " " \o Doubled(SubSeq(s, 3, Len(s)))
    ELSE CharAt(s, 1) \o Doubled(SubSeq(s, 2, Len(s)))

RECURSIVE NoTrailingDigits(_)
\* re.sub(r'\d+$', '', s)
NoTrailingDigits(s) ==
    IF Len(s) > 0 /\ CharAt(s, Len(s)) \in CharSet(DigitChars)
    THEN NoTrailingDigits(SubSeq(s, 1, Len(s) - 1))
    ELSE s

RECURSIVE CamelSpaced(_)
\* re.sub(r'([a-z])([A-Z])', r'\1 \2', s)
CamelSpaced(s) ==
    IF Len(s) < 2 THEN s
    ELSE IF CharAt(s, 1) \in CharSet(LowerChars) /\ CharAt(s, 2) \in CharSet(UpperChars)
    THEN CharAt(s, 1) \o " " \o CamelSpaced(SubSeq(s, 2, Len(s)))
    ELSE CharAt(s, 1) \o CamelSpaced(SubSeq(s, 2, Len(s)))

\* element.get_attribute("data-automation-id")
AutomationId(el) ==
    IF \E i \in 1..Len(el.data) : el.data[i][1] = "data-automation-id"
    THEN el.data[CHOOSE i \in 1..Len(el.data) : el.data[i][1] = "data-automation-id"][2]
    ELSE NoValue

\* _find_label: the aria-label, else the data-automation-id made
\* readable, else the text of the label element of the field (el.label),
\* else the placeholder, else the name in title case, else the id without
\* its trailing digits when more than two characters are left, else the
\* literal Unknown
_find_label(el) ==
    IF el.aria_label # NoValue THEN Strip(el.aria_label)
    ELSE IF AutomationId(el) # NoValue THEN Title(CamelSpaced(Spaced(AutomationId(el))), FALSE)
    ELSE IF el.label # NoValue THEN Strip(el.label)
    ELSE IF el.placeholder # NoValue THEN el.placeholder
    ELSE IF el.name # NoValue THEN Title(Spaced(el.name), FALSE)
    ELSE IF el.id # NoValue /\ Len(Strip(NoTrailingDigits(Spaced(Doubled(el.id))))) > 2
    THEN Title(Strip(NoTrailingDigits(Spaced(Doubled(el.id)))), FALSE)
    ELSE "Unknown"

IsMain(el) == el.frame = NoValue

IsFramed(el) == el.frame # NoValue

RECURSIVE DetectFrom(_, _)
\* the loop of _detect_fields over all_elements, each with the URL of its
\* frame (empty for the main document); the
\* elements of the model are visible, outside cookie banners and have an
\* id or a name
DetectFrom(elements, i) ==
    IF i > Len(elements) THEN << >>
    ELSE LET el == elements[i]
         IN  IF el.type = "hidden" \/ _build_selector(el) = NoValue
             THEN DetectFrom(elements, i + 1)
             ELSE << FormField(FieldType(EngineModule, DetectedType(el)), _find_label(el),
                               _build_selector(el), el.name, el.frame) >>
                  \o DetectFrom(elements, i + 1)

\* AutofillEngine._detect_fields on a page showing document doc: the
\* elements of the main document, then those of the frames
_detect_fields(doc) ==
    DetectFrom(SelectSeq(Documents[doc].elements, IsMain)
               \o SelectSeq(Documents[doc].elements, IsFramed), 1)

\* every element of every document
AllElements ==
    UNION {{Documents[d].elements[i] : i \in 1..Len(Documents[d].elements)} : d \in DocumentNames}

RECURSIVE SelectorRows(_)
SelectorRows(els) ==
    IF els = {} THEN << >>
    ELSE LET el == CHOOSE el \in els : TRUE
         IN  (el :> _build_selector(el)) @@ SelectorRows(els \ {el})

\* the selector of each element
SelectorOf == SelectorRows(AllElements)

\* page.query_selector(selector) in the main document: the position of the
\* element, 0 when there is none
QuerySelector(doc, selector) ==
    LET els == Documents[doc].elements
        found == {i \in 1..Len(els) : IsMain(els[i]) /\ SelectorOf[els[i]] = selector}
    IN  IF found = {} THEN 0
        ELSE CHOOSE i \in found : \A j \in found : i <= j

\* frame.query_selector(selector) in the frame whose URL is frame_url: the
\* position of the element, 0 when there is no such frame or element
FrameQuerySelector(doc, frame_url, selector) ==
    LET els == Documents[doc].elements
        found == {i \in 1..Len(els) : els[i].frame = frame_url /\ SelectorOf[els[i]] = selector}
    IN  IF found = {} THEN 0
        ELSE CHOOSE i \in found : \A j \in found : i <= j

\* the selectors of form_indicators that find a visible element
FormIndicators(doc) ==
    LET els == Documents[doc].elements
        inputs == {i \in 1..Len(els) : els[i].tag = "input"}
        NameHas(lit) == \E i \in inputs : Contains(MapLower(els[i].name), lit)
    IN  { s \in {"name", "email", "file", "resume", "phone", "#first_name", "#last_name", "#email"} :
            CASE s = "file" -> \E i \in inputs : els[i].type = "file"
              [] s \in {"#first_name", "#last_name", "#email"} ->
                    \E i \in 1..Len(els) : IdSelector(els[i]) = s
              [] OTHER -> NameHas(s) }

RECURSIVE IndicatorRows(_)
IndicatorRows(docs) ==
    IF docs = {} THEN << >>
    ELSE LET d == CHOOSE d \in docs : TRUE
         IN  (d :> Cardinality(FormIndicators(d))) @@ IndicatorRows(docs \ {d})

\* form_field_count of _click_apply_button_if_present, per document
FormFieldCount == IndicatorRows(DocumentNames)

RECURSIVE DetectRows(_)
DetectRows(docs) ==
    IF docs = {} THEN << >>
    ELSE LET d == CHOOSE d \in docs : TRUE
         IN  (d :> _detect_fields(d)) @@ DetectRows(docs \ {d})

\* the fields _detect_fields finds, per document
DetectedFields == DetectRows(DocumentNames)

(***************************************************************************)
(* The page of an engine and what a fill does to it                        *)
(***************************************************************************)

\* a page showing a document: whether its tab is still open, and the value
\* each element of the document holds
PageOf(doc) ==
    [doc |-> doc, open |-> TRUE,
     values |-> [i \in 1..Len(Documents[doc].elements) |-> NoValue]]

NoPage == [doc |-> "none", open |-> FALSE, values |-> << >>]

\* one call the engine makes on the page or on the bank, as it is logged
Event(ev, target, value) == [ev |-> ev, target |-> target, value |-> value]

\* what a step of a handler leaves behind: the page, whether the form was
\* submitted by it, and the calls made
FillResult(ok, page, submitted, events) ==
    [ok |-> ok, page |-> page, submitted |-> submitted, events |-> events]

\* _get_element: a field with no iframe URL is looked up in the main
\* document, a field with one in the frame of that URL
_get_element(page, form_field) ==
    IF form_field.iframe_url # NoValue
    THEN FrameQuerySelector(page.doc, form_field.iframe_url, form_field.selector)
    ELSE QuerySelector(page.doc, form_field.selector)

\* element.fill works on text inputs and textareas; on any other element
\* Playwright raises
Fillable(el) ==
    \/ el.tag = "textarea"
    \/ el.tag = "input" /\ el.type \in {"text", "email", "tel", "url", ""}

\* the dropdown signals _fill_field looks for: the placeholder, the role
\* and the class of the element
is_dropdown(el) ==
    \/ Contains(MapLower(el.placeholder), "select")
    \/ Contains(MapLower(el.placeholder), "choose")
    \/ el.role = "combobox"
    \/ Contains(MapLower(el.class), "select")
    \/ Contains(MapLower(el.class), "dropdown")

RECURSIVE DropdownRows(_)
DropdownRows(els) ==
    IF els = {} THEN << >>
    ELSE LET el == CHOOSE el \in els : TRUE
         IN  (el :> is_dropdown(el)) @@ DropdownRows(els \ {el})

\* is_dropdown of each element
DropdownSignal == DropdownRows(AllElements)

\* what the browser does when Enter is pressed in an element: a widget
\* whose script handles the key keeps the event; in any other input of a
\* form the key submits the form (implicit submission)
EnterSubmits(el) == el.in_form /\ ~el.handles_enter /\ el.tag = "input"

\* element.select_option(value): the options whose value or label is value
SelectOptionMatches(el, value) ==
    {k \in 1..Len(el.options) : el.options[k][1] = value \/ el.options[k][2] = value}

\* the loop over the options after select_option raised: the first option
\* whose text or value contains the value, compared in lower case
PartialMatches(el, value) ==
    {k \in 1..Len(el.options) :
        \/ Contains(MapLower(el.options[k][2]), MapLower(value))
        \/ Contains(MapLower(el.options[k][1]), MapLower(value))}

Least(S) == CHOOSE k \in S : \A m \in S : k <= m

\* Path(path).exists(): the file system of the model holds the resume
PathExists(path) == path = "/home/ada/resume.pdf"

\* element.select_option(value=opt_value): the first option with that value
SelectByValue(el, opt_value) ==
    Least({k \in 1..Len(el.options) : el.options[k][1] = opt_value})

\* the select branch of _fill_field on element el at position pos: the
\* page shows the text of the option the browser selected
FillSelect(page, pos, el, sel, value, look) ==
    IF el.tag = "select" /\ SelectOptionMatches(el, value) # {}
    THEN FillResult(TRUE,
                    [page EXCEPT !.values[pos] = el.options[Least(SelectOptionMatches(el, value))][2]],
                    FALSE, <<look, Event("select_option", sel, value)>>)
    ELSE IF el.tag = "select" /\ PartialMatches(el, value) # {}
    THEN LET opt_value == el.options[Least(PartialMatches(el, value))][1]
         IN  FillResult(TRUE,
                        [page EXCEPT !.values[pos] = el.options[SelectByValue(el, opt_value)][2]],
                        FALSE,
                        <<look, Event("select_option", sel, value),
                          Event("select_option", sel, opt_value)>>)
    ELSE FillResult(FALSE, page, FALSE, <<look, Event("select_option", sel, value)>>)

\* the branches of _fill_field once the element is found at position pos
FillFound(page, form_field, value, pos, el, look) ==
    LET Set(v) == [page EXCEPT !.values[pos] = v]
        Is(type) == form_field.field_type = FieldType(EngineModule, type)
        sel == form_field.selector
    IN  IF Is("file")
        THEN IF value # NoValue /\ PathExists(value)
             THEN FillResult(TRUE, Set(value), FALSE, <<look, Event("set_input_files", sel, value)>>)
             ELSE FillResult(FALSE, page, FALSE, <<look>>)
        ELSE IF Is("select")
        THEN FillSelect(page, pos, el, sel, value, look)
        ELSE IF Is("checkbox")
        THEN FillResult(TRUE, Set("checked"), FALSE,
                        IF page.values[pos] = "checked" THEN <<look>>
                        ELSE <<look, Event("check", sel, NoValue)>>)
        ELSE IF DropdownSignal[el] /\ el.covered
        THEN IF Fillable(el)
             THEN FillResult(TRUE, Set(value), FALSE,
                             <<look, Event("click", sel, "raised"), Event("fill", sel, value)>>)
             ELSE FillResult(FALSE, page, FALSE,
                             <<look, Event("click", sel, "raised"), Event("fill", sel, value)>>)
        ELSE IF DropdownSignal[el]
        THEN IF Fillable(el)
             THEN FillResult(TRUE, IF EnterSubmits(el) THEN PageOf("thanks") ELSE Set(value),
                             EnterSubmits(el),
                             <<look, Event("click", sel, NoValue),
                               Event("wait_for_timeout", sel, "500"), Event("fill", sel, value),
                               Event("wait_for_timeout", sel, "1000"),
                               Event("press", sel, "Enter")>>)
             ELSE FillResult(FALSE, page, FALSE,
                             <<look, Event("click", sel, NoValue),
                               Event("wait_for_timeout", sel, "500"), Event("fill", sel, value),
                               Event("fill", sel, value)>>)
        ELSE IF Fillable(el)
        THEN FillResult(TRUE, Set(value), FALSE, <<look, Event("fill", sel, value)>>)
        ELSE FillResult(FALSE, page, FALSE,
                        <<look, Event("fill", sel, value), Event("fill", sel, value)>>)

\* the lookup _fill_field makes through _get_element: the selector, and the
\* frame it is made in (empty for the main document)
Lookup(form_field) == Event("lookup", form_field.selector, form_field.iframe_url)

\* _fill_field once _get_element has returned pos
FillAt(page, form_field, value, pos) ==
    IF pos = 0 THEN FillResult(FALSE, page, FALSE, <<Lookup(form_field)>>)
    ELSE FillFound(page, form_field, value, pos, Documents[page.doc].elements[pos],
                   Lookup(form_field))

\* AutofillEngine._fill_field; on a closed page the lookup raises and the
\* method returns False
_fill_field(page, form_field, value) ==
    IF ~page.open
    THEN FillResult(FALSE, page, FALSE, <<Lookup(form_field)>>)
    ELSE FillAt(page, form_field, value, _get_element(page, form_field))


(***************************************************************************)
(* The value resolver                                                      *)
(***************************************************************************)

\* a value and the strategy that produced it; NoValue is Python's None or
\* an empty string, which the callers do not tell apart (if value:)
\* calls are the lookups made on the way, in their order: the bank's
\* get_answer with the answer it returned, the two prompts of the LLM with
\* the reply to each
Resolved(value, via, bank, calls) ==
    [value |-> value, via |-> via, answers |-> bank, calls |-> calls]

\* a lookup of the resolver and what it returned
Call(ev, value) == [ev |-> ev, value |-> value]

\* the chain of profile branches of _get_value_for_field: hit says that a
\* branch returned, with the profile value it returned
ProfileMapping(form_field) ==
    LET combined == MapLower(form_field.label) \o " " \o MapLower(form_field.name)
        Has(lit) == Contains(combined, lit)
        Is(type) == form_field.field_type = FieldType(EngineModule, type)
        Hit(v) == [hit |-> TRUE, value |-> v]
    IN  IF Has("first") \/ Has("fname") THEN Hit(Profile.first_name)
        ELSE IF Has("last") \/ Has("lname") THEN Hit(Profile.last_name)
        ELSE IF Has("full") /\ Has("name") THEN Hit(Profile.full_name)
        ELSE IF Is("email") \/ Has("email") THEN Hit(Profile.email)
        ELSE IF Is("tel") \/ Has("phone") THEN Hit(Profile.phone)
        ELSE IF Has("linkedin") THEN Hit(Profile.linkedin)
        ELSE IF Has("github") THEN Hit(Profile.github)
        ELSE IF (Has("website") \/ Has("portfolio") \/ Has("personal")) /\ Len(combined) < 20
        THEN Hit(Profile.website)
        ELSE IF Is("file") THEN Hit(Profile.resume_path)
        ELSE IF Is("textarea") /\ (Has("cover") \/ Has("letter") \/ Has("why") \/ Has("interest"))
        THEN Hit(Profile.cover_letter)
        ELSE [hit |-> FALSE, value |-> NoValue]

\* every field a handler can pass to the resolver
AllFields == UNION {{DetectedFields[d][i] : i \in 1..Len(DetectedFields[d])} : d \in DocumentNames}

RECURSIVE ProfileRows(_)
ProfileRows(fields) ==
    IF fields = {} THEN << >>
    ELSE LET f == CHOOSE f \in fields : TRUE
         IN  (f :> ProfileMapping(f)) @@ ProfileRows(fields \ {f})

ProfileTable == ProfileRows(AllFields)

\* LLMClient of the engine: whether a client exists (an API key is set and
\* the openai package is installed), and what the model replies to the two
\* prompts of a pass
NoLLM == [available |-> FALSE, check_reply |-> "NO_MATCH", generate_reply |-> "UNKNOWN"]

\* LLMClient.check_answer_bank: reads the bank it is handed to build the
\* prompt and returns the stripped reply, None for NO_MATCH
check_answer_bank(llm, question, bank) ==
    IF ~llm.available THEN NoValue
    ELSE IF llm.check_reply = "NO_MATCH" THEN NoValue
    ELSE llm.check_reply

\* generate_answer_from_resume returning whatever the model replied
generate_answer_from_resume_unchecked(llm, question, resume_text, options) ==
    IF ~llm.available THEN NoValue ELSE llm.generate_reply

\* LLMClient.generate_answer_from_resume: None when the reply contains
\* UNKNOWN
generate_answer_from_resume(llm, question, resume_text, options) ==
    IF ~llm.available THEN NoValue
    ELSE IF Contains(llm.generate_reply, "UNKNOWN") THEN NoValue
    ELSE llm.generate_reply

\* get_answer that remembers a fuzzy hit under the question asked
AnswersAfterGetCaching(bank, question, company) ==
    LET found == get_answer(bank, question, company)
    IN  IF found.layer = "fuzzy"
        THEN [bank EXCEPT !.exact = DictSet(@, Normalized(question), found.value)]
        ELSE bank

\* self.answers once get_answer has returned: the method assigns nothing
AnswersAfterGet(bank, question, company) == bank

\* the dict handed to check_answer_bank once it has returned: the method
\* iterates over its items and assigns nothing
AnswersAfterCheck(llm, question, bank) == bank

\* the order of the strategies of _get_value_for_field: the profile, the
\* bank (stored, which leaves the bank as looked), the semantic match over
\* the bank (context_match, which leaves it as checked), the answer
\* generated from the resume
ResolveInOrder(profile, stored, looked, context_match, checked, generated, bank, llm, resume_text) ==
    LET got == <<Call("get_answer", stored.value)>>
        matched == got \o <<Call("check_answer_bank", llm.check_reply)>>
        asked == matched \o <<Call("generate_answer_from_resume", llm.generate_reply)>>
    IN  IF profile.hit THEN Resolved(profile.value, "profile", bank, << >>)
        ELSE IF stored.value # NoValue THEN Resolved(stored.value, "bank", looked, got)
        ELSE IF llm.available /\ context_match # NoValue
        THEN Resolved(context_match, "llm_match", checked, matched)
        ELSE IF llm.available /\ resume_text # NoValue /\ generated # NoValue
        THEN Resolved(generated, "llm_generate", checked, asked)
        ELSE Resolved(NoValue, "none", IF llm.available THEN checked ELSE looked,
                      IF ~llm.available THEN got
                      ELSE IF resume_text = NoValue THEN matched ELSE asked)

\* the LLM strategies of _get_value_for_field on the bank the lookup left
ResolveAfterLookup(form_field, bank, stored, looked, llm, resume_text) ==
    ResolveInOrder(ProfileTable[form_field], stored, looked,
                   check_answer_bank(llm, form_field.label, looked),
                   AnswersAfterCheck(llm, form_field.label, looked),
                   generate_answer_from_resume(llm, form_field.label, resume_text, << >>),
                   bank, llm, resume_text)

\* AutofillEngine._get_value_for_field: the value, the strategy it came
\* from, and the bank as the calls made on the way leave it
_get_value_for_field(form_field, bank, company, llm, resume_text) ==
    ResolveAfterLookup(form_field, bank,
                       get_answer(bank, form_field.label, company),
                       AnswersAfterGet(bank, form_field.label, company),
                       llm, resume_text)

\* _get_dropdown_options: the options with a value or a text
RECURSIVE DropdownOptionsFrom(_, _)
DropdownOptionsFrom(options, k) ==
    IF k > Len(options) THEN << >>
    ELSE IF options[k][1] # NoValue \/ options[k][2] # NoValue
    THEN <<options[k]>> \o DropdownOptionsFrom(options, k + 1)
    ELSE DropdownOptionsFrom(options, k + 1)

_get_dropdown_options(el) == DropdownOptionsFrom(el.options, 1)

(***************************************************************************)
(* Escalation to the operator and the fill pass                            *)
(***************************************************************************)

\* what the operator types at the prompts of a pass: the number chosen at
\* a dropdown prompt (0 stands for "s", skip) and the text typed at a text
\* prompt
OperatorChoices == 0..3

OperatorAnswers == {"s", "M"}

NoReply == [choice |-> 0, answer |-> "s"]

\* AutofillEngine._ask_user_for_field: the value it returns, the bank after
\* it, and the calls it made
_ask_user_for_field(form_field, el, store, company, interactive, reply) ==
    LET options == _get_dropdown_options(el)
        sel == form_field.selector
        Quiet == [value |-> NoValue, store |-> store, events |-> << >>]
    IN  IF ~interactive THEN Quiet
        ELSE IF form_field.field_type = FieldType(EngineModule, "select")
        THEN IF options = << >> \/ reply.choice = 0 \/ reply.choice > Len(options)
             THEN Quiet
             ELSE LET selected_value == options[reply.choice][1]
                  IN  [value |-> selected_value,
                       store |-> store_answer(store, form_field.label, selected_value, company, FALSE),
                       events |-> <<Event("answer", sel, selected_value),
                                    Event("store", form_field.label, selected_value)>>]
        ELSE IF MapLower(reply.answer) = "s" \/ reply.answer = NoValue
        THEN Quiet
        ELSE [value |-> NoValue,
              store |-> store_answer(store, form_field.label, reply.answer, company, FALSE),
              events |-> <<Event("answer", sel, reply.answer), Event("store", form_field.label, reply.answer)>>]

\* the state a pass over the fields carries from one field to the next
PassStart(page, store) ==
    [page |-> page, store |-> store, submitted |-> FALSE, events |-> << >>,
     filled |-> << >>, filled_count |-> 0, failed_count |-> 0, skipped_count |-> 0,
     unfilled |-> << >>, raised |-> FALSE]

\* the end of the loop body of fill_form: a field with a value is filled
\* and counted as filled or failed, a field without one is skipped; the
\* loop of refill_autofill has no count of failed fills (counts_failed is
\* false)
FillOrSkip(st, form_field, asked, fill, counts_failed) ==
    IF asked.value # NoValue
    THEN [st EXCEPT !.page = fill.page,
                    !.store = asked.store,
                    !.submitted = @ \/ fill.submitted,
                    !.events = @ \o asked.events \o fill.events,
                    !.filled = Append(@, fill.ok),
                    !.filled_count = IF fill.ok THEN @ + 1 ELSE @,
                    !.failed_count = IF fill.ok \/ ~counts_failed THEN @ ELSE @ + 1]
    ELSE [st EXCEPT !.store = asked.store,
                    !.events = @ \o asked.events,
                    !.filled = Append(@, FALSE),
                    !.skipped_count = @ + 1,
                    !.unfilled = Append(@, form_field)]

\* the loop body once the value is settled: _fill_field with it
FillWith(st, form_field, asked, counts_failed) ==
    FillOrSkip(st, form_field, asked, _fill_field(st.page, form_field, asked.value),
               counts_failed)

\* _get_value_for_field raises: it reached the generation step for a
\* select, whose options it reads from the page, and the page is closed
ResolverRaises(st, form_field, env, auto) ==
    /\ ~st.page.open
    /\ form_field.field_type = FieldType(EngineModule, "select")
    /\ auto.via \in {"llm_generate", "none"}
    /\ env.llm.available
    /\ env.resume_text # NoValue

\* the exception of the resolver in the loop body: fill_form catches it
\* per field and counts the field as failed; the loop of refill_autofill
\* has no handler of its own, so the exception ends the loop
Raised(st, form_field, env) ==
    IF env.guarded
    THEN [st EXCEPT !.events = Append(@, Event("resolve", form_field.selector, "raised")),
                    !.filled = Append(@, FALSE),
                    !.failed_count = @ + 1]
    ELSE [st EXCEPT !.events = Append(@, Event("resolve", form_field.selector, "raised")),
                    !.raised = TRUE]

\* the lookups of the resolver for a field as the pass logs them
CallEvents(calls, selector) ==
    [i \in 1..Len(calls) |-> Event(calls[i].ev, selector, calls[i].value)]

\* the loop body once the resolver has returned auto: the operator is asked
\* when there is no value, the engine is interactive and the element exists
AskIfUnresolved(st, form_field, env, auto, pos) ==
    IF ResolverRaises(st, form_field, env, auto) THEN Raised(st, form_field, env)
    ELSE
    FillWith([st EXCEPT !.events = @ \o CallEvents(auto.calls, form_field.selector)
                                   \o <<Event("resolve", form_field.selector, auto.via)>>],
             form_field,
             IF auto.value = NoValue /\ env.interactive /\ pos # 0
             THEN _ask_user_for_field(form_field, Documents[st.page.doc].elements[pos],
                                      [st.store EXCEPT !.answers = auto.answers],
                                      env.company, env.interactive, env.reply)
             ELSE [value |-> auto.value, store |-> [st.store EXCEPT !.answers = auto.answers],
                   events |-> << >>],
             env.guarded)

\* the loop body of fill_form for one field
FillOne(st, form_field, env) ==
    AskIfUnresolved(st, form_field, env,
                    _get_value_for_field(form_field, st.store.answers, env.company, env.llm,
                                         env.resume_text),
                    _get_element(st.page, form_field))

\* the operator closes the tab while the pass is at field i
ClosedAt(st, i, env) ==
    IF env.closes_at = i THEN [st EXCEPT !.page = NoPage] ELSE st

RECURSIVE FillLoop(_, _, _, _)
\* the loop of fill_form (and of refill_autofill) over the detected fields
FillLoop(fields, i, st, env) ==
    IF i > Len(fields) \/ st.raised THEN st
    ELSE FillLoop(fields, i + 1, FillOne(ClosedAt(st, i, env), fields[i], env), env)

(***************************************************************************)
(* The engine: acquisition, release, navigation                            *)
(***************************************************************************)

\* what __enter__ can meet in the environment
\*   persistent    launch_persistent_context succeeds
\*   fallback      it fails, and the fresh browser and context succeed
\*   fail_start    sync_playwright().start() raises
\*   fail_launch   the persistent launch and the fallback launch both raise
EnterOutcomes == {"persistent", "fallback", "fail_start", "fail_launch"}

\* AutofillEngine.__init__: nothing acquired yet; others are the open pages
\* of the context besides self.page, oldest first
NewEngine(interactive) ==
    [playwright |-> "none", context |-> "none", browser |-> "none", is_persistent |-> "unset",
     page |-> NoPage, others |-> << >>, company |-> NoValue, interactive |-> interactive]

\* AutofillEngine.__enter__: the engine as the call leaves it, and whether
\* the call raised
__enter__(engine, outcome) ==
    CASE outcome = "persistent" ->
            [raised |-> FALSE,
             engine |-> [engine EXCEPT !.playwright = "started", !.context = "open",
                                       !.is_persistent = "true", !.page = PageOf("blank")]]
      [] outcome = "fallback" ->
            [raised |-> FALSE,
             engine |-> [engine EXCEPT !.playwright = "started", !.browser = "open",
                                       !.context = "open", !.is_persistent = "false",
                                       !.page = PageOf("blank")]]
      [] outcome = "fail_start" ->
            [raised |-> TRUE, engine |-> engine]
      [] OTHER ->
            [raised |-> TRUE, engine |-> [engine EXCEPT !.playwright = "started"]]

\* AutofillEngine.__exit__: the context is closed if there is one, the
\* browser only when _is_persistent_context is set and false, the
\* automation host is stopped if it was started
__exit__(engine) ==
    [engine EXCEPT
        !.context = IF @ = "open" THEN "closed" ELSE @,
        !.page = IF engine.context = "open" THEN NoPage ELSE @,
        !.others = IF engine.context = "open" THEN << >> ELSE @,
        !.browser = IF engine.is_persistent = "false" /\ @ = "open" THEN "closed" ELSE @,
        !.playwright = IF @ = "started" THEN "stopped" ELSE @]

\* something of the engine is still held
Acquired(engine) ==
    engine.playwright = "started" \/ engine.context = "open" \/ engine.browser = "open"

\* what context.expect_page saw during the click on the Apply button of a
\* page: a new tab with the target (self.page becomes it and the old page
\* is closed), or its timeout (the click worked in the same tab)
AfterApply(page, apply) ==
    IF apply.new_tab
    THEN <<Event("expect_page", apply.target, "opened"),
           Event("switch_page", apply.target, NoValue),
           Event("close_page", page.doc, NoValue)>>
    ELSE <<Event("expect_page", apply.target, "timeout")>>

\* _click_apply_button_if_present that leaves self.page as it is when the
\* click opens a new tab
_click_apply_button_if_present_staying(page) ==
    LET apply == Documents[page.doc].apply
    IN  IF FormFieldCount[page.doc] >= 2 \/ apply.kind = "none"
        THEN [clicked |-> FALSE, page |-> page, submitted |-> FALSE, events |-> << >>]
        ELSE [clicked |-> TRUE, page |-> IF apply.new_tab THEN page ELSE PageOf(apply.target),
              submitted |-> apply.kind = "submit",
              events |-> <<Event("click_apply", page.doc, apply.kind),
                           Event("expect_page", apply.target,
                                 IF apply.new_tab THEN "opened" ELSE "timeout")>>]

\* AutofillEngine._click_apply_button_if_present on an open page: no
\* search for a button when two form indicators are visible; else the
\* click on the Apply button of the page, if it has one
_click_apply_button_if_present(page) ==
    LET apply == Documents[page.doc].apply
    IN  IF FormFieldCount[page.doc] >= 2 \/ apply.kind = "none"
        THEN [clicked |-> FALSE, page |-> page, submitted |-> FALSE, events |-> << >>]
        ELSE [clicked |-> TRUE, page |-> PageOf(apply.target),
              submitted |-> apply.kind = "submit",
              events |-> <<Event("click_apply", page.doc, apply.kind)>>
                         \o AfterApply(page, apply)]

\* page.goto(url): the page after it, and whether it raised
Goto(page, url) ==
    IF Site[url] = "unreachable" \/ ~page.open
    THEN [raised |-> TRUE, page |-> page]
    ELSE [raised |-> FALSE, page |-> PageOf(Site[url])]

\* analyze_form after the Apply click: detection on the page it left
Detected(url, click) ==
    [error |-> NoValue, page |-> click.page,
     fields_detected |-> DetectedFields[click.page.doc],
     submitted |-> click.submitted,
     events |-> <<Event("goto", url, NoValue)>> \o click.events
                \o <<Event("detect", click.page.doc, NoValue)>>]

\* analyze_form after page.goto
Analysed(url, nav) ==
    IF nav.raised
    THEN [error |-> "navigation", page |-> nav.page, fields_detected |-> << >>,
          submitted |-> FALSE, events |-> <<Event("goto", url, NoValue)>>]
    ELSE Detected(url, _click_apply_button_if_present(nav.page))

\* AutofillEngine.analyze_form: navigation, the Apply click, detection; an
\* exception on the way becomes analysis.error
analyze_form(page, url) == Analysed(url, Goto(page, url))


\* the pass of fill_form over the fields of an analysis; an analysis with
\* an error has no fields
PassOver(analysis, start, env) ==
    [error |-> analysis.error, fields_detected |-> analysis.fields_detected,
     pass |-> IF analysis.error # NoValue THEN start
              ELSE FillLoop(analysis.fields_detected, 1, start, env)]

\* fill_form after analyze_form has returned
FillAnalysed(analysis, store, env) ==
    PassOver(analysis,
             [PassStart(analysis.page, store) EXCEPT !.submitted = analysis.submitted,
                                                      !.events = analysis.events],
             env)

\* AutofillEngine.fill_form(url, dry_run=True, company): the analysis, the
\* page and the bank after the pass
fill_form(page, store, url, company, interactive, llm, resume_text, reply) ==
    FillAnalysed(analyze_form(page, url), store,
                 [company |-> company, interactive |-> interactive, llm |-> llm,
                  resume_text |-> resume_text, reply |-> reply, guarded |-> TRUE,
                  closes_at |-> 0])

RECURSIVE TakeUntilSlash(_, _)
\* ([^/]+) from position i
TakeUntilSlash(s, i) ==
    IF i > Len(s) \/ CharAt(s, i) = "/" THEN ""
    ELSE CharAt(s, i) \o TakeUntilSlash(s, i + 1)

\* re.search(lit + "([^/]+)", url).group(1), NoValue when there is no match
CaptureAfter(url, lit) ==
    LET starts == {i \in 1..Len(url) :
                      OccursAt(url, lit, i) /\ TakeUntilSlash(url, i + Len(lit)) # ""}
    IN  IF starts = {} THEN NoValue
        ELSE TakeUntilSlash(url, Least(starts) + Len(lit))

\* extract_company_from_url for the links that reach the engine; links
\* with workday or myworkdayjobs in them are opened in the user's browser
\* by run_dryrun and by the server, and only those can match the two
\* Workday expressions
extract_company_from_url(url) ==
    IF CaptureAfter(url, "boards.greenhouse.io/") # NoValue
    THEN CaptureAfter(url, "boards.greenhouse.io/")
    ELSE IF CaptureAfter(url, "jobs.lever.co/") # NoValue
    THEN CaptureAfter(url, "jobs.lever.co/")
    ELSE NoValue

RECURSIVE CompanyRows(_)
CompanyRows(urls) ==
    IF urls = {} THEN << >>
    ELSE LET u == CHOOSE u \in urls : TRUE
         IN  (u :> extract_company_from_url(u)) @@ CompanyRows(urls \ {u})

\* the company of each link
CompanyOf == CompanyRows(Urls)

\* resume_text of the engine: the text of the PDF at profile.resume_path
ResumeText == IF Profile.resume_path # NoValue THEN "resume" ELSE NoValue

VARIABLES
    answers,    \* AnswerBank.answers of the process's bank (get_answer_bank())
    file,       \* storage/answers.json
    nStores,    \* store_answer calls so far
    lastCall,   \* the latest store_answer or load, with its arguments
    mode,       \* the process: the web server, or a command-line dry run
    session,    \* current_autofill_session of the server
    engines,    \* every AutofillEngine constructed so far, in order
    submitted,  \* an operation of the program has submitted a form
    llm_available,  \* LLMClient.is_available()
    last        \* the latest request: its name, its outcome and the calls it made

bankVars == <<answers, file, nStores, lastCall>>

sessionVars == <<mode, session, engines, submitted, llm_available, last>>

vars == <<bankVars, sessionVars>>

\* current_autofill_session as the module defines it; 0 is None
NoSession == [engine |-> 0, url |-> NoValue, unfilled_fields |-> << >>]

\* what a pass reports: the detected fields, which of them were filled, the
\* counts, and the fields left without a value
NoReport ==
    [fields |-> << >>, filled |-> << >>, filled_count |-> 0, failed_count |-> 0,
     skipped_count |-> 0, unfilled |-> << >>, success_rate |-> 0]

NoRequest ==
    [op |-> "start", ok |-> TRUE, error |-> NoValue, events |-> << >>, report |-> NoReport]

NoCall == [op |-> "init", question |-> NoValue, answer |-> NoValue, company |-> NoValue, is_pattern |-> FALSE]

\* AnswerBank.__init__ at process start: the bank is loaded from the file
InitBank ==
    /\ file \in SeedFiles
    /\ answers = Load(file)
    /\ nStores = 0
    /\ lastCall = NoCall
    /\ mode = "bank"
    /\ session = NoSession
    /\ engines = << >>
    /\ submitted = FALSE
    /\ llm_available = FALSE
    /\ last = NoRequest

\* a store_answer call
StoreAnswer ==
    \E q \in Questions, a \in Answers, c \in Companies, p \in BOOLEAN :
        LET after == store_answer([answers |-> answers, file |-> file], q, a, c, p)
        IN  /\ nStores < MaxStores
            /\ answers' = after.answers
            /\ file' = after.file
            /\ nStores' = nStores + 1
            /\ lastCall' = [op |-> "store", question |-> q, answer |-> a, company |-> c, is_pattern |-> p]
            /\ UNCHANGED sessionVars

\* the process ends (or crashes) and a new one starts: get_answer_bank()
\* builds the bank again from the file
Restart ==
    /\ answers' = Load(file)
    /\ lastCall' = [lastCall EXCEPT !.op = "load"]
    /\ UNCHANGED <<file, nStores>>
    /\ UNCHANGED sessionVars

NextBank == StoreAnswer \/ Restart

SpecBank == InitBank /\ [][NextBank]_vars


(***************************************************************************)
(* The web server's autofill session and the command-line dry run          *)
(***************************************************************************)

\* how many engines a behaviour constructs
MaxEngines == 2

\* what the model replies to the semantic-match prompt and to the
\* generation prompt
CheckReplies == {"NO_MATCH", "L"}

GenerateReplies == {"UNKNOWN", "S"}

\* the LLM clients a pass can meet
LLMs ==
    IF llm_available
    THEN {[available |-> TRUE, check_reply |-> c, generate_reply |-> g] :
            c \in {"NO_MATCH"}, g \in GenerateReplies}
         \cup {[available |-> TRUE, check_reply |-> c, generate_reply |-> "UNKNOWN"] :
                 c \in CheckReplies}
    ELSE {NoLLM}

\* the values the operator can send for an unfilled field; NoValue is a
\* field left empty in the UI
SubmitValues == {NoValue, "M"}

Request(op, ok, error, events) ==
    [op |-> op, ok |-> ok, error |-> error, events |-> events, report |-> NoReport]

\* filled_count / total if total > 0 else 0.0, in percent
success_rate(filled_count, total) ==
    IF total > 0 THEN (filled_count * 100) \div total ELSE 0

\* the request of a handler that ran a pass over fields, with what the
\* pass reports
Reported(request, fields, pass) ==
    [request EXCEPT !.report =
        [fields |-> fields, filled |-> pass.filled, filled_count |-> pass.filled_count,
         failed_count |-> pass.failed_count, skipped_count |-> pass.skipped_count,
         unfilled |-> pass.unfilled,
         success_rate |-> success_rate(pass.filled_count, Len(fields))]]

\* the store_answer calls among the calls of a request
StoreEvents(events) == {k \in 1..Len(events) : events[k].ev = "store"}

\* lastCall after a request that made the calls events for company
LastCallAfter(events, company) ==
    IF StoreEvents(events) = {} THEN lastCall
    ELSE LET k == CHOOSE k \in StoreEvents(events) : \A m \in StoreEvents(events) : m <= k
         IN  [op |-> "store", question |-> events[k].target, answer |-> events[k].value,
              company |-> company, is_pattern |-> FALSE]

\* _close_existing_session: the held engine is released, the record reset
_close_existing_session(sess, engs) ==
    IF sess.engine # 0
    THEN [session |-> NoSession, engines |-> [engs EXCEPT ![sess.engine] = __exit__(@)]]
    ELSE [session |-> sess, engines |-> engs]

\* the entry of unfilled_fields for a field (label, selector, type)
FieldInfo(form_field) ==
    [label |-> form_field.label, selector |-> form_field.selector,
     type |-> form_field.field_type.value]

RECURSIVE UnfilledInfos(_, _, _)
\* the fields of a pass that are not filled and whose label is not Unknown
UnfilledInfos(fields, filled, i) ==
    IF i > Len(fields) THEN << >>
    ELSE IF ~filled[i] /\ fields[i].label # "Unknown"
    THEN <<FieldInfo(fields[i])>> \o UnfilledInfos(fields, filled, i + 1)
    ELSE UnfilledInfos(fields, filled, i + 1)

\* what a pass leaves in the bank, in its file and on the page: the part of
\* the next state every handler that ran a pass shares
PassEffects(pass, company) ==
    /\ nStores + Cardinality(StoreEvents(pass.events)) <= MaxStores
    /\ answers' = pass.store.answers
    /\ file' = pass.store.file
    /\ nStores' = nStores + Cardinality(StoreEvents(pass.events))
    /\ lastCall' = LastCallAfter(pass.events, company)
    /\ submitted' = (submitted \/ pass.submitted)

\* answers.json as the sessions find it: not written yet, or the file with
\* answers of the exact layer and of a company
SessionSeeds == {f \in SeedFiles : ~f.exists \/ f.content.custom # EmptyDict}

Init ==
    /\ file \in SessionSeeds
    /\ answers = Load(file)
    /\ nStores = 0
    /\ lastCall = NoCall
    /\ mode \in {"server", "cli", "mock"}
    /\ session = NoSession
    /\ engines = << >>
    /\ submitted = FALSE
    /\ llm_available \in BOOLEAN
    /\ last = NoRequest

\* run_autofill_and_get_questions once fill_form has returned result: the
\* engine is kept in the session with the fields the pass left unfilled
run_autofill_and_get_questions(engs, engine, id, url, result) ==
    /\ PassEffects(result.pass, NoValue)
    /\ session' = [engine |-> id, url |-> url,
                   unfilled_fields |->
                       UnfilledInfos(result.fields_detected, result.pass.filled, 1)]
    /\ engines' = Append(engs, [engine EXCEPT !.page = result.pass.page])
    /\ last' = Reported(Request("open", TRUE, NoValue, result.pass.events),
                        result.fields_detected, result.pass)

\* POST /api/open for a Greenhouse or Lever link: open_link hands the link to
\* run_autofill_and_get_questions
OpenWithAutofill ==
    \E outcome \in EnterOutcomes :
        LET closed == _close_existing_session(session, engines)
            entered == __enter__(NewEngine(FALSE), outcome)
            id == Len(engines) + 1
        IN  /\ mode = "server"
            /\ Len(engines) < MaxEngines
            /\ IF entered.raised
               THEN /\ session' = closed.session
                    /\ engines' = Append(closed.engines, entered.engine)
                    /\ last' = Request("open", FALSE, "enter", << >>)
                    /\ UNCHANGED <<answers, file, nStores, lastCall, submitted>>
               ELSE \E url \in Urls, llm \in LLMs :
                    run_autofill_and_get_questions(
                        closed.engines, entered.engine, id, url,
                        fill_form(entered.engine.page, [answers |-> answers, file |-> file],
                                  url, NoValue, FALSE, llm, ResumeText, NoReply))
            /\ UNCHANGED <<mode, llm_available>>

\* POST /api/open-browser: open_browser_only
OpenBrowserOnly ==
    \E outcome \in EnterOutcomes :
        LET closed == _close_existing_session(session, engines)
            entered == __enter__(NewEngine(FALSE), outcome)
            id == Len(engines) + 1
        IN  /\ mode = "server"
            /\ Len(engines) < MaxEngines
            /\ IF entered.raised
               THEN /\ session' = closed.session
                    /\ engines' = Append(closed.engines, entered.engine)
                    /\ last' = Request("open_browser", FALSE, "enter", << >>)
                    /\ UNCHANGED submitted
               ELSE \E url \in Urls :
                    LET nav == Goto(entered.engine.page, url)
                        click == _click_apply_button_if_present(nav.page)
                        engine == [entered.engine EXCEPT !.page = click.page]
                        held == [engine |-> id, url |-> url, unfilled_fields |-> << >>]
                        failed == _close_existing_session(held,
                                                          Append(closed.engines, entered.engine))
                    IN  IF nav.raised
                        THEN /\ session' = failed.session
                             /\ engines' = failed.engines
                             /\ last' = Request("open_browser", FALSE, "navigation",
                                                <<Event("goto", url, NoValue)>>)
                             /\ UNCHANGED submitted
                        ELSE /\ session' = held
                             /\ engines' = Append(closed.engines, engine)
                             /\ submitted' = (submitted \/ click.submitted)
                             /\ last' = Request("open_browser", TRUE, NoValue,
                                                <<Event("goto", url, NoValue)>> \o click.events)
            /\ UNCHANGED <<bankVars, mode, llm_available>>

\* the loop body of submit_autofill_answers after _fill_field has returned
\* fill: the answer is stored when the fill succeeded
StoreIfFilled(st, info, value, fill) ==
    IF fill.ok
    THEN [st EXCEPT !.page = fill.page,
                    !.store = store_answer(st.store, info.label, value, NoValue, FALSE),
                    !.submitted = @ \/ fill.submitted,
                    !.events = @ \o <<Event("answer", info.selector, value)>>
                                 \o fill.events
                                 \o <<Event("store", info.label, value)>>,
                    !.filled_count = @ + 1]
    ELSE [st EXCEPT !.events = @ \o <<Event("answer", info.selector, value)>> \o fill.events]

\* the loop body of submit_autofill_answers for one unfilled field: a field
\* without an answer is passed over; the others are filled through a
\* temporary FormField built from the server's import of FieldType
SubmitOne(st, info, value) ==
    IF value = NoValue THEN st
    ELSE StoreIfFilled(st, info, value,
                       _fill_field(st.page,
                                   FormField(FieldType(ServerImportModule, info.type), info.label,
                                             info.selector, NoValue, NoValue),
                                   value))

RECURSIVE SubmitLoop(_, _, _, _)
\* the loop of submit_autofill_answers over unfilled_fields
SubmitLoop(infos, i, st, values) ==
    IF i > Len(infos) THEN st
    ELSE SubmitLoop(infos, i + 1, SubmitOne(st, infos[i], values[i]), values)

\* submit_autofill_answers after its loop
Submitted(pass) ==
    /\ PassEffects(pass, NoValue)
    /\ engines' = [engines EXCEPT ![session.engine].page = pass.page]
    /\ last' = Request("answer", TRUE, NoValue, pass.events)

\* POST /api/autofill/answer: submit_autofill_answers
SubmitAnswers ==
    /\ mode = "server"
    /\ IF session.engine = 0
       THEN /\ last' = Request("answer", FALSE, "no_session", << >>)
            /\ UNCHANGED <<bankVars, engines, submitted>>
       ELSE \E values \in [1..Len(session.unfilled_fields) -> SubmitValues] :
                Submitted(SubmitLoop(session.unfilled_fields, 1,
                                     PassStart(engines[session.engine].page,
                                               [answers |-> answers, file |-> file]),
                                     values))
    /\ UNCHANGED <<mode, session, llm_available>>

RECURSIVE Infos(_, _)
\* the entries of unfilled_fields for the skipped fields of a refill
Infos(fields, i) ==
    IF i > Len(fields) THEN << >>
    ELSE IF fields[i].label # "Unknown"
    THEN <<FieldInfo(fields[i])>> \o Infos(fields, i + 1)
    ELSE Infos(fields, i + 1)

\* refill_autofill after its pass over the fields detected on the page
Refilled(engine, probe, pass) ==
    /\ PassEffects(pass, engine.company)
    /\ session' = IF pass.raised THEN session
                  ELSE [session EXCEPT !.unfilled_fields = Infos(pass.unfilled, 1)]
    /\ engines' = [engines EXCEPT ![session.engine] = [engine EXCEPT !.page = pass.page]]
    /\ last' = Reported(Request("refill", ~pass.raised,
                                IF pass.raised THEN "exception" ELSE NoValue,
                                <<probe, Event("detect", engine.page.doc, NoValue)>>
                                \o pass.events),
                        DetectedFields[engine.page.doc], pass)

\* the liveness probe of refill_autofill (_ = engine.page.url) as it is
\* logged: whether it raised
Probe(raised) == Event("probe", "page.url", IF raised THEN "raised" ELSE "ok")

\* the recovery of refill_autofill: engine.page = engine.context.pages[-1]
Recovered(engine) ==
    [engine EXCEPT !.page = engine.others[Len(engine.others)],
                   !.others = SubSeq(engine.others, 1, Len(engine.others) - 1)]

\* the session marked dead without a page to recover to: the engine is
\* dropped from the record, not released
MarkDeadKeepingEngine(sess) == [sess EXCEPT !.unfilled_fields = << >>]

MarkDead(sess) == [sess EXCEPT !.engine = 0, !.unfilled_fields = << >>]

\* when the operator closes the tab during a pass: never (0), or as the
\* loop over the detected fields begins
ClosePoints == {0, 1}

\* refill_autofill from _inject_autofill_button on, with the engine as the
\* probe and the recovery left it
RefillPass(engine, probe) ==
    \E llm \in LLMs, closes_at \in ClosePoints :
        Refilled(engine, probe,
                 FillLoop(DetectedFields[engine.page.doc], 1,
                          PassStart(engine.page, [answers |-> answers, file |-> file]),
                          [company |-> engine.company, interactive |-> FALSE, llm |-> llm,
                           resume_text |-> ResumeText, reply |-> NoReply,
                           guarded |-> FALSE, closes_at |-> closes_at]))

\* POST /api/autofill/refill: refill_autofill.  Reading page.url of a
\* closed page raises or not, as the automation library decides; the
\* operator, who sees the browser, may close the tab while the pass runs
Refill ==
    /\ mode = "server"
    /\ IF session.engine = 0
       THEN /\ last' = Request("refill", FALSE, "no_session", << >>)
            /\ UNCHANGED <<bankVars, session, engines, submitted>>
       ELSE IF ~engines[session.engine].page.open
       THEN \E probe_raises \in BOOLEAN :
                IF probe_raises /\ engines[session.engine].others # << >>
                THEN RefillPass(Recovered(engines[session.engine]), Probe(TRUE))
                ELSE /\ session' = IF probe_raises THEN MarkDead(session) ELSE session
                     /\ last' = Request("refill", FALSE,
                                        IF probe_raises THEN "expired" ELSE "page",
                                        <<Probe(probe_raises)>>)
                     /\ UNCHANGED <<bankVars, engines, submitted>>
       ELSE RefillPass(engines[session.engine], Probe(FALSE))
    /\ UNCHANGED <<mode, llm_available>>

\* POST /api/autofill/close: close_autofill
CloseAutofill ==
    LET closed == _close_existing_session(session, engines)
    IN  /\ mode = "server"
        /\ session' = closed.session
        /\ engines' = closed.engines
        /\ last' = Request("close", TRUE, NoValue, << >>)
        /\ UNCHANGED <<bankVars, mode, submitted, llm_available>>

\* POST /api/answers/update and /api/answers/delete: update_answer and
\* delete_answer call a method AnswerBank does not define, and the
\* AttributeError becomes an error reply
EditAnswer ==
    /\ mode = "server"
    /\ last' = Request("answers_edit", FALSE, "AttributeError", << >>)
    /\ UNCHANGED <<bankVars, mode, session, engines, submitted, llm_available>>

\* the tabs the operator may have opened in the session's browser besides
\* the engine's: none, or an empty tab and after it one that shows the
\* site's page for a submitted application
OtherTabs == {<< >>, <<PageOf("blank"), PageOf("thanks")>>}

\* the operator closes the tab of the session's browser; the tabs the
\* operator opened stay
UserClosesTab ==
    /\ mode = "server"
    /\ session.engine # 0
    /\ engines[session.engine].page.open
    /\ \E tabs \in OtherTabs :
          engines' = [engines EXCEPT ![session.engine].page = NoPage,
                                     ![session.engine].others = tabs]
    /\ last' = Request("user_closes_tab", TRUE, NoValue, << >>)
    /\ UNCHANGED <<bankVars, mode, session, submitted, llm_available>>

\* run_dryrun once fill_form has returned result: the with block ends and
\* releases the engine
run_dryrun(engine, company, result) ==
    /\ PassEffects(result.pass, company)
    /\ engines' = Append(engines, __exit__([engine EXCEPT !.page = result.pass.page,
                                                           !.company = company]))
    /\ last' = Reported(Request("dryrun", result.error = NoValue, result.error,
                                result.pass.events),
                        result.fields_detected, result.pass)

\* python poc_autofill.py --dryrun URL, confirmed with y: run_dryrun
DryRun ==
    \E outcome \in EnterOutcomes :
        LET entered == __enter__(NewEngine(TRUE), outcome)
        IN  /\ mode = "cli"
            /\ Len(engines) < MaxEngines
            /\ IF entered.raised
               THEN /\ engines' = Append(engines, entered.engine)
                    /\ last' = Request("dryrun", FALSE, "enter", << >>)
                    /\ UNCHANGED <<bankVars, submitted>>
               ELSE \E url \in Urls, llm \in LLMs,
                       choice \in OperatorChoices, answer \in OperatorAnswers :
                    run_dryrun(entered.engine, CompanyOf[url],
                               fill_form(entered.engine.page, [answers |-> answers, file |-> file],
                                         url, CompanyOf[url], TRUE, llm, ResumeText,
                                         [choice |-> choice, answer |-> answer]))
            /\ UNCHANGED <<mode, session, llm_available>>

\* one turn of the loop of run_mock_form_test once fill_form has returned
\* result: the with block ends and releases the engine
run_mock_form_test(engine, result) ==
    /\ PassEffects(result.pass, NoValue)
    /\ engines' = Append(engines, __exit__([engine EXCEPT !.page = result.pass.page]))
    /\ last' = Reported(Request("mock", result.error = NoValue, result.error,
                                result.pass.events),
                        result.fields_detected, result.pass)

\* python poc_autofill.py --mode mock: run_mock_form_test on a mock form
\* that exists, with an engine that is interactive by default
MockTest ==
    \E outcome \in EnterOutcomes :
        LET entered == __enter__(NewEngine(TRUE), outcome)
        IN  /\ mode = "mock"
            /\ Len(engines) < MaxEngines
            /\ IF entered.raised
               THEN /\ engines' = Append(engines, entered.engine)
                    /\ last' = Request("mock", FALSE, "enter", << >>)
                    /\ UNCHANGED <<bankVars, submitted>>
               ELSE \E llm \in LLMs, choice \in OperatorChoices, answer \in OperatorAnswers :
                    run_mock_form_test(
                        entered.engine,
                        fill_form(entered.engine.page, [answers |-> answers, file |-> file],
                                  MockUrl, NoValue, TRUE, llm, ResumeText,
                                  [choice |-> choice, answer |-> answer]))
            /\ UNCHANGED <<mode, session, llm_available>>

Next ==
    \/ OpenWithAutofill
    \/ OpenBrowserOnly
    \/ SubmitAnswers
    \/ Refill
    \/ CloseAutofill
    \/ EditAnswer
    \/ UserClosesTab
    \/ DryRun
    \/ MockTest

Spec == Init /\ [][Next]_vars

(***************************************************************************)
(* The value mappings of the answer bank                                   *)
(***************************************************************************)

\* a category of a mapping and its keywords
Category(category, keywords) == [category |-> category, keywords |-> keywords]

\* VALUE_MAPPINGS, with the keys, the categories and the keywords in the
\* order of the dict literals
VALUE_MAPPINGS ==
    << [k |-> "work_auth_us",
        v |-> << Category("yes", <<"yes", "authorized", "eligible", "legally authorized",
                                   "yes - us citizen", "yes - green card", "us citizen",
                                   "permanent resident">>),
                 Category("no", <<"no", "not authorized", "require sponsorship", "will require">>) >>],
       [k |-> "requires_sponsorship",
        v |-> << Category("no", <<"no", "not required", "do not require", "won't require",
                                  "will not require">>),
                 Category("yes", <<"yes", "required", "will require", "need sponsorship">>) >>],
       [k |-> "degree_type",
        v |-> << Category("bachelors", <<"bachelor", "bachelors", "bs", "ba", "b.s.", "b.a.",
                                         "undergraduate">>),
                 Category("masters", <<"master", "masters", "ms", "ma", "m.s.", "m.a.", "graduate">>),
                 Category("phd", <<"phd", "ph.d.", "doctorate", "doctoral">>) >>],
       [k |-> "veteran_status",
        v |-> << Category("no", <<"no", "not a veteran", "i am not", "n/a", "prefer not">>),
                 Category("yes", <<"yes", "veteran", "i am a veteran">>) >>],
       [k |-> "disability_status",
        v |-> << Category("no", <<"no", "i don't have", "i do not have", "n/a", "prefer not",
                                  "decline">>),
                 Category("yes", <<"yes", "i have a disability">>) >>],
       [k |-> "gender",
        v |-> << Category("male", <<"male", "man", "m">>),
                 Category("female", <<"female", "woman", "f", "w">>),
                 Category("other", <<"non-binary", "other", "prefer not to say", "decline",
                                     "n/a">>) >>] >>

\* any(kw in profile_lower or profile_lower in kw for kw in keywords)
ProfileMatches(keywords, profile_lower) ==
    \E i \in 1..Len(keywords) :
        Contains(profile_lower, keywords[i]) \/ Contains(keywords[i], profile_lower)

\* any(kw in option_lower for kw in target_keywords)
OptionMatches(keywords, option_lower) ==
    \E i \in 1..Len(keywords) : Contains(option_lower, keywords[i])

\* AnswerBank.find_matching_value: the first option that holds a keyword of
\* the first category the profile value matches, None without one
find_matching_value(pattern_key, options, profile_value) ==
    IF ~DictHas(VALUE_MAPPINGS, pattern_key) THEN NoValue
    ELSE LET mappings == DictGet(VALUE_MAPPINGS, pattern_key)
             profile_lower == MapLower(profile_value)
             categories == {c \in 1..Len(mappings) :
                               ProfileMatches(mappings[c].keywords, profile_lower)}
         IN  IF categories = {} THEN NoValue
             ELSE LET target_keywords == mappings[Least(categories)].keywords
                      matching == {o \in 1..Len(options) :
                                      OptionMatches(target_keywords, MapLower(options[o]))}
                  IN  IF matching = {} THEN NoValue ELSE options[Least(matching)]

\* the pattern keys a caller passes: those of the table and one it lacks
PatternKeys == {VALUE_MAPPINGS[i].k : i \in 1..Len(VALUE_MAPPINGS)} \cup {"race"}

\* the values of a profile
ProfileValues == {"female", "Male", "yes", "no", "Bachelors", "US Citizen", "Other"}

\* the options of the dropdowns of a form
OptionLists ==
    { <<"Male", "Female">>, <<"Female", "Male", "Non-binary">>, <<"Yes", "No">>,
      <<"No", "Yes">>, <<"Bachelor's degree", "Master's degree">>,
      <<"I am a veteran", "I am not a veteran">>, << >> }

\* the options of a call as its log holds them
OptionEvents(pattern_key, options) ==
    [o \in 1..Len(options) |-> Event("option", pattern_key, options[o])]

\* a call of find_matching_value and what it returned
Matched(pattern_key, options, profile_value, result) ==
    Request("find_matching_value", result # NoValue, NoValue,
            <<Event("profile_value", pattern_key, profile_value)>>
            \o OptionEvents(pattern_key, options)
            \o <<Event("return", pattern_key, result)>>)

InitMatch ==
    /\ file = NoFile
    /\ answers = Load(file)
    /\ nStores = 0
    /\ lastCall = NoCall
    /\ mode = "match"
    /\ session = NoSession
    /\ engines = << >>
    /\ submitted = FALSE
    /\ llm_available = FALSE
    /\ last = NoRequest

\* a caller asks the bank to translate a profile value into the options
\* of a dropdown
FindMatchingValue ==
    /\ mode = "match"
    /\ \E pattern_key \in PatternKeys, options \in OptionLists, profile_value \in ProfileValues :
          last' = Matched(pattern_key, options, profile_value,
                          find_matching_value(pattern_key, options, profile_value))
    /\ UNCHANGED <<bankVars, mode, session, engines, submitted, llm_available>>

NextMatch == FindMatchingValue

SpecMatch == InitMatch /\ [][NextMatch]_vars

\* ---- selector synthesis on its own: _detect_fields over one element ----

\* the attributes the elements of this specification are drawn from
SelectorIds == {NoValue, "city"}
SelectorNames == {NoValue, "home_city"}
SelectorData ==
    { << >>,
      << <<"data-x", "1">> >>,
      << <<"data-x", "1">>, <<"data-testid", "t">> >>,
      << <<"data-qa", "q">>, <<"data-automation-id", "cityInput">> >> }
SelectorAriaLabels == {NoValue, "Your \"home\" city"}
SelectorPlaceholders == {NoValue, "City"}
SelectorAutocompletes == {NoValue, "off", "address-level2"}
SelectorPaths == {NoValue, "form > div:nth-of-type(2) > input"}

\* the data attributes of an element, as calls in the order of the markup
DataEvents(data) == [i \in 1..Len(data) |-> Event("data", data[i][1], data[i][2])]

\* the fields a detection returned, as calls
FieldEvents(fields) ==
    [i \in 1..Len(fields) |-> Event("field", fields[i].selector, fields[i].label)]

\* a run of _detect_fields over a document of one element: the attributes
\* read, the selector built and the fields returned
DetectedOne(el, selector, fields) ==
    Request("_detect_fields", fields # << >>, NoValue,
            <<Event("id", el.tag, el.id), Event("name", el.tag, el.name)>>
            \o DataEvents(el.data)
            \o <<Event("aria-label", el.tag, el.aria_label),
                 Event("placeholder", el.tag, el.placeholder),
                 Event("autocomplete", el.tag, el.autocomplete),
                 Event("path", el.tag, el.path),
                 Event("_build_selector", el.tag, selector)>>
            \o FieldEvents(fields))

InitSelector ==
    /\ file = NoFile
    /\ answers = Load(file)
    /\ nStores = 0
    /\ lastCall = NoCall
    /\ mode = "selector"
    /\ session = NoSession
    /\ engines = << >>
    /\ submitted = FALSE
    /\ llm_available = FALSE
    /\ last = NoRequest

\* the engine detects the fields of a page that holds one visible text
\* input with some of the attributes a selector can be built from
DetectOneField ==
    /\ mode = "selector"
    /\ \E id \in SelectorIds, name \in SelectorNames, data \in SelectorData,
          aria_label \in SelectorAriaLabels, placeholder \in SelectorPlaceholders,
          autocomplete \in SelectorAutocompletes, path \in SelectorPaths :
          LET el == Attributed(Element(id, "input", "text", name, placeholder, "", "", "",
                                       NoOptions, TRUE, FALSE),
                               data, aria_label, autocomplete, path)
          IN  last' = DetectedOne(el, _build_selector(el), DetectFrom(<<el>>, 1))
    /\ UNCHANGED <<bankVars, mode, session, engines, submitted, llm_available>>

NextSelector == DetectOneField

SpecSelector == InitSelector /\ [][NextSelector]_vars
(***************************************************************************)
(* Claims about the answer bank (checked under SpecBank)                   *)
(***************************************************************************)

\* the lookup layers, stated on the bank itself
ExactHit(bank, q) == DictHas(bank.exact, Normalized(q))

PatternHit(bank, q) == PatternKey(q) # NoValue /\ DictHas(bank.patterns, PatternKey(q))

CustomHit(bank, q, c) ==
    /\ c # NoValue
    /\ DictHas(bank.custom, MapLower(c))
    /\ DictHas(DictGet(bank.custom, MapLower(c)), Normalized(q))

\* the exact entries whose similarity to q exceeds the threshold
FuzzyCandidates(bank, q) ==
    {i \in 1..Len(bank.exact) :
        RatioGreater(Similarity(Normalized(q), bank.exact[i].k), FuzzyThreshold)}

\* the exact entries whose similarity to q is at least 0.7
AtOrAboveFloor(bank, q) ==
    {i \in 1..Len(bank.exact) :
        ~RatioGreater(FuzzyThreshold, Similarity(Normalized(q), bank.exact[i].k))}

\* the latest call was store_answer(q, a, c) (is_pattern left at its default)
StoredPlain == lastCall.op = "store" /\ ~lastCall.is_pattern

LookupOfStored == get_answer(answers, lastCall.question, lastCall.company)

\* C4 as stated: after store_answer(q, a, c) returns, get_answer(q, c)
\* returns exactly a, from the direct lookup of q (the exact or the
\* company-scoped entry of q), whatever the bank held before.
C4_StoredAnswerReturned ==
    StoredPlain =>
        /\ LookupOfStored.value = lastCall.answer
        /\ LookupOfStored.layer \in {"exact", "custom"}

\* C4 amended: after store_answer(q, a, c) returns, get_answer(q, c) returns
\* exactly a from the direct lookup of q when no company is given, and when a
\* company is given provided the bank holds no exact entry for q and no
\* pattern entry for q's pattern key; otherwise it returns that earlier
\* layer's answer.
C4_StoredAnswerReturnedUnlessShadowed ==
    StoredPlain =>
        IF lastCall.company = NoValue
        THEN LookupOfStored = [layer |-> "exact", value |-> lastCall.answer]
        ELSE IF ExactHit(answers, lastCall.question)
        THEN LookupOfStored =
                [layer |-> "exact", value |-> DictGet(answers.exact, Normalized(lastCall.question))]
        ELSE IF PatternHit(answers, lastCall.question)
        THEN LookupOfStored =
                [layer |-> "pattern", value |-> DictGet(answers.patterns, PatternKey(lastCall.question))]
        ELSE LookupOfStored = [layer |-> "custom", value |-> lastCall.answer]

\* C4 witness: an answer stored for a company is returned from that
\* company's entry of the question (whose key ends in a space)
C4_Witness ==
    /\ StoredPlain
    /\ lastCall.company # NoValue
    /\ lastCall.question = "Shirt size?"
    /\ LookupOfStored = [layer |-> "custom", value |-> lastCall.answer]

\* C5: get_answer(question, company) returns the first hit of exact,
\* pattern, company-scoped custom, fuzzy, in this order, and none only when
\* all four miss.
C5_LookupOrder ==
    \A q \in Questions, c \in Companies :
        LET r == get_answer(answers, q, c)
        IN  IF ExactHit(answers, q)
            THEN r = [layer |-> "exact", value |-> DictGet(answers.exact, Normalized(q))]
            ELSE IF PatternHit(answers, q)
            THEN r = [layer |-> "pattern", value |-> DictGet(answers.patterns, PatternKey(q))]
            ELSE IF CustomHit(answers, q, c)
            THEN r = [layer |-> "custom",
                      value |-> DictGet(DictGet(answers.custom, MapLower(c)), Normalized(q))]
            ELSE IF FuzzyCandidates(answers, q) # {}
            THEN /\ r.layer = "fuzzy"
                 /\ \E i \in FuzzyCandidates(answers, q) : r.value = answers.exact[i].v
            ELSE r = NoAnswer

\* C5 witness: after a store, one question is answered by the pattern layer
\* although the company holds a custom answer for it, and another is
\* answered by the fuzzy layer
C5_Witness ==
    /\ nStores > 0
    /\ \E q \in Questions, c \in Companies :
          /\ PatternHit(answers, q) /\ CustomHit(answers, q, c)
          /\ get_answer(answers, q, c).layer = "pattern"
          /\ get_answer(answers, q, c).value # DictGet(DictGet(answers.custom, MapLower(c)), Normalized(q))
    /\ \E q \in Questions : get_answer(answers, q, NoValue).layer = "fuzzy"

\* C6 as stated: normalization is idempotent, for every question a store was
\* made with: normalize_question(normalize_question(q)) = normalize_question(q).
C6_NormalizeIdempotent ==
    lastCall.op = "store" =>
        normalize_question(normalize_question(lastCall.question)) = normalize_question(lastCall.question)

\* C7 as stated: when the earlier layers miss, get_answer returns a fuzzy
\* answer if and only if some stored exact question has similarity at or
\* above 0.7, and then the answer of one with the highest similarity.
C7_FuzzyAtOrAboveFloor ==
    \A q \in Questions, c \in Companies :
        LET r == get_answer(answers, q, c)
        IN  (~ExactHit(answers, q) /\ ~PatternHit(answers, q) /\ ~CustomHit(answers, q, c)) =>
                /\ r.layer = "fuzzy" <=> AtOrAboveFloor(answers, q) # {}
                /\ r.layer = "fuzzy" =>
                      \E i \in AtOrAboveFloor(answers, q) :
                          /\ r.value = answers.exact[i].v
                          /\ \A j \in 1..Len(answers.exact) :
                                ~RatioGreater(Similarity(Normalized(q), answers.exact[j].k),
                                              Similarity(Normalized(q), answers.exact[i].k))

\* C8: the file holds the in-memory bank whenever a store_answer call has
\* returned (and at every later moment, a restart included): the file exists
\* after the first store and its content equals the bank.
C8_FlushedOnReturn ==
    /\ file.exists => file.content = answers
    /\ nStores > 0 => file.exists
    /\ ~file.exists => answers = EmptyBank

\* C8 witness: the process restarted after a store into a bank that had no
\* file, and the bank loaded at startup returns the stored answer
C8_Witness ==
    /\ lastCall.op = "load"
    /\ nStores > 0
    /\ ~lastCall.is_pattern
    /\ lastCall.company = NoValue
    /\ Len(answers.exact) = 1
    /\ LookupOfStored = [layer |-> "exact", value |-> lastCall.answer]


(***************************************************************************)
(* Claims about the engine and the session (checked under Spec)            *)
(***************************************************************************)

\* C1: after any sequence of session operations (start, navigation, the
\* Apply click, detection, fills of every kind including click-type-Enter,
\* refill, operator answers, close) no operation has submitted the form.
C1_NothingSubmitted == submitted = FALSE

\* the engines that hold something: a started automation host, an open
\* context or an open browser
AcquiredEngines == {i \in 1..Len(engines) : Acquired(engines[i])}

\* C2: in the server, at most one engine is acquired and unreleased at any
\* time: each start releases the engine held before it acquires a new one.
C2_AtMostOneEngineHeld == mode = "server" => Cardinality(AcquiredEngines) <= 1

\* C3: in the server, an engine that is acquired and unreleased is the one
\* the session record refers to: once the record stops referring to an
\* engine, and when __enter__ failed part-way, __exit__ has released it.
C3_ReleasedUnlessReferred == mode = "server" => \A i \in AcquiredEngines : session.engine = i

\* the calls of the latest request that are lookups of the value resolver,
\* by the strategy that answered
ResolvedVia(via) ==
    {k \in 1..Len(last.events) : last.events[k].ev = "resolve" /\ last.events[k].value = via}

RECURSIVE StoresApplied(_, _, _, _)
\* the bank and its file after the store_answer calls among events, made
\* in their order, and nothing else
StoresApplied(store, events, k, company) ==
    IF k > Len(events) THEN store
    ELSE StoresApplied(IF events[k].ev = "store"
                       THEN store_answer(store, events[k].target, events[k].value, company, FALSE)
                       ELSE store,
                       events, k + 1, company)

\* C9: the bank is changed only by store operations: every request leaves
\* exact, patterns and custom (and the file) as its store_answer calls alone
\* make them, so get_answer with its normalization, pattern key and fuzzy
\* scan, and the resolver with the LLM semantic match that is handed the
\* bank, change nothing; a request without a store leaves the bank as it was.
C9_ChangedOnlyByStore ==
    [][/\ [answers |-> answers', file |-> file'] =
              StoresApplied([answers |-> answers, file |-> file], last'.events, 1,
                            lastCall'.company)
       /\ (nStores' = nStores => answers' = answers /\ file' = file)]_vars

\* C9 witness: a pass that made no store_answer call resolved one field
\* from the bank and another through the semantic match over the bank
C9_Witness ==
    /\ last.op \in {"open", "refill"}
    /\ last.ok
    /\ nStores = 0
    /\ StoreEvents(last.events) = {}
    /\ ResolvedVia("bank") # {}
    /\ ResolvedVia("llm_match") # {}
    /\ answers.exact # EmptyDict

\* the calls that put a value into an element
FillCalls == {"fill", "select_option", "set_input_files", "check"}

\* C10: every answer the operator gave (at a prompt of an interactive pass
\* or in an answer-submission request) is first stored in the bank and then
\* used to fill its field: among the calls of the request, the answer is
\* followed by a store_answer of it, and that by a fill of the field with it.
C10_StoredThenUsed ==
    \A k \in 1..Len(last.events) :
        last.events[k].ev = "answer" =>
            \E j \in (k + 1)..Len(last.events) :
                /\ last.events[j].ev = "store"
                /\ last.events[j].value = last.events[k].value
                /\ \E n \in (j + 1)..Len(last.events) :
                      /\ last.events[n].ev \in FillCalls
                      /\ last.events[n].target = last.events[k].target
                      /\ last.events[n].value = last.events[k].value

\* the fields detected under a selector
FieldsAt(selector) == {f \in AllFields : f.selector = selector}

\* the answers of the latest request that the operator gave for a dropdown
SelectAnswers ==
    {k \in 1..Len(last.events) :
        /\ last.events[k].ev = "answer"
        /\ \E f \in FieldsAt(last.events[k].target) : f.field_type.value = "select"}

\* the companies a later pass can run for: the ones of the links, and none
\* (the server's passes)
PassCompanies == {CompanyOf[u] : u \in Urls} \cup {NoValue}

\* C11 as stated: once the operator has answered an escalated dropdown
\* question, at the interactive prompt or in an answer-submission request,
\* a later pass for any company finds the answer in the exact or the
\* pattern layer of the bank, so the field is not escalated again.
C11_AnsweredDropdownResolvesLater ==
    \A k \in SelectAnswers :
        \A f \in FieldsAt(last.events[k].target), c \in PassCompanies :
            get_answer(answers, f.label, c).layer \in {"exact", "pattern"}

\* the calls of the latest request
Called(ev, target, value) ==
    \E k \in 1..Len(last.events) : last.events[k] = Event(ev, target, value)

\* C12 as stated: one pass over the mock form (first_name, email, select
\* work_auth with Yes and No) with the profile Ada, ada@example.com, work
\* authorization yes, an empty bank and no LLM fills Ada, ada@example.com
\* and the option Yes, and reports 3 of 3 fields filled.
C12_MockFormFilledThreeOfThree ==
    (last.op = "mock" /\ last.ok /\ ~llm_available /\ ~file.exists) =>
        /\ Len(last.report.fields) = 3
        /\ last.report.filled_count = 3
        /\ Called("fill", "#first_name", Profile.first_name)
        /\ Called("fill", "[name=\"email\"]", Profile.email)
        /\ Called("select_option", "#work_auth", "Yes")

\* the requests that ran a detect-and-fill pass
PassOps == {"open", "refill", "dryrun", "mock"}

\* the calls of _fill_field that write a value
WriteCalls == {"fill", "select_option", "set_input_files"}

\* the fields of the latest pass the resolver had no value for
Unresolved ==
    {i \in 1..Len(last.report.fields) :
        Called("resolve", last.report.fields[i].selector, "none")}

\* the fields of the latest pass for which the operator gave a value
Answered ==
    {i \in 1..Len(last.report.fields) :
        \E k \in 1..Len(last.events) :
            /\ last.events[k].ev = "answer"
            /\ last.events[k].target = last.report.fields[i].selector
            /\ last.events[k].value # NoValue}

\* C13: a field the resolver has no value for (question never seen, no
\* profile mapping, no LLM) is reported unresolved: it is among the
\* unfilled fields, not marked filled and not counted; no pass writes an
\* empty value into a field, and every field counted as filled was
\* written with a value.
C13_UnresolvedReportedNeverEmptyFill ==
    last.op \in PassOps =>
        /\ \A i \in Unresolved \ Answered :
              /\ ~last.report.filled[i]
              /\ \E n \in 1..Len(last.report.unfilled) :
                    last.report.unfilled[n] = last.report.fields[i]
        /\ \A k \in 1..Len(last.events) :
              last.events[k].ev \in WriteCalls => last.events[k].value # NoValue
        /\ last.report.filled_count =
              Cardinality({i \in 1..Len(last.report.filled) : last.report.filled[i]})
        /\ \A i \in 1..Len(last.report.filled) :
              last.report.filled[i] =>
                  \E k \in 1..Len(last.events) :
                      /\ last.events[k].ev \in WriteCalls \cup {"check"}
                      /\ last.events[k].target = last.report.fields[i].selector
                      /\ last.events[k].ev \in WriteCalls => last.events[k].value # NoValue

RECURSIVE Resolves(_, _)
\* the fields the resolver was called for, in the order of the calls
Resolves(events, k) ==
    IF k > Len(events) THEN << >>
    ELSE IF events[k].ev = "resolve"
    THEN <<events[k].target>> \o Resolves(events, k + 1)
    ELSE Resolves(events, k + 1)

\* C14 as stated: a failure on one field does not abort the pass: in
\* fill_form and in refill the resolver is called for every detected field,
\* in detection order, and every detected field has its outcome recorded
\* (filled or not).
C14_FailureDoesNotAbortPass ==
    (last.op \in PassOps /\ last.error \notin {"enter", "navigation", "no_session", "expired", "page"}) =>
        /\ Resolves(last.events, 1) =
              [i \in 1..Len(last.report.fields) |-> last.report.fields[i].selector]
        /\ Len(last.report.filled) = Len(last.report.fields)

\* the option a select fill of value is to choose: the first whose value
\* (or label) equals the target, else the first whose text or value
\* contains it without regard to case; 0 when there is none
IntendedOption(el, value) ==
    IF SelectOptionMatches(el, value) # {} THEN Least(SelectOptionMatches(el, value))
    ELSE IF PartialMatches(el, value) # {} THEN Least(PartialMatches(el, value))
    ELSE 0

\* the value the latest pass tried to select in the field at selector
SelectTarget(selector) ==
    LET calls == {k \in 1..Len(last.events) :
                    last.events[k].ev = "select_option" /\ last.events[k].target = selector}
    IN  last.events[Least(calls)].value

\* the selects of the latest pass that a select fill was attempted on
SelectsTried ==
    {i \in 1..Len(last.report.fields) :
        /\ last.report.fields[i].field_type.value = "select"
        /\ \E k \in 1..Len(last.events) :
              /\ last.events[k].ev = "select_option"
              /\ last.events[k].target = last.report.fields[i].selector}

\* C15 as stated: after the first pass of a session over a page, every
\* select the pass tried to fill shows the option whose value equals the
\* target, else the first option whose value or text contains it (also
\* when the value attribute of that option is empty or shared); when no
\* option matches, the fill is reported as failed and the select is as it
\* was.
C15_SelectShowsMatchedOption ==
    (mode = "server" /\ last.op = "open" /\ last.ok /\ session.engine # 0
        /\ Called("detect", engines[session.engine].page.doc, NoValue)) =>
        \A i \in SelectsTried :
            LET page == engines[session.engine].page
                pos == _get_element(page, last.report.fields[i])
                el == Documents[page.doc].elements[pos]
                intended == IntendedOption(el, SelectTarget(last.report.fields[i].selector))
            IN  IF intended = 0
                THEN ~last.report.filled[i] /\ page.values[pos] = NoValue
                ELSE last.report.filled[i] /\ page.values[pos] = el.options[intended][2]

IsAnswer(event) == event.ev = "answer"

IsStore(event) == event.ev = "store"

\* C16 as stated: fill(field, value) is idempotent on retry: when an
\* answer-submission request repeats the fills of the request before it
\* (the same values for the same fields), the page is left as the first
\* request left it and every fill has the outcome it had the first time
\* (submit_autofill_answers stores an answer exactly when its fill
\* returned True).
C16_FillIdempotentOnRetry ==
    [][(/\ last.op = "answer" /\ last.ok
        /\ last'.op = "answer" /\ last'.ok
        /\ session.engine # 0
        /\ SelectSeq(last'.events, IsAnswer) = SelectSeq(last.events, IsAnswer))
       => /\ engines'[session.engine].page = engines[session.engine].page
          /\ SelectSeq(last'.events, IsStore) = SelectSeq(last.events, IsStore)]_vars

\* the latest request navigated to a link the site does not answer
NavigationFailed ==
    \E k \in 1..Len(last.events) :
        last.events[k].ev = "goto" /\ Site[last.events[k].target] = "unreachable"

\* C17 as stated: when the page of a start-with-autofill request cannot be
\* reached (the navigation times out), the reply is an error and not a
\* successful-looking result, and the session can still be closed: the
\* record refers to the engine that was started, or to none.
C17_DetectionFailureSurfaced ==
    (last.op = "open" /\ NavigationFailed) =>
        /\ ~last.ok
        /\ last.error # NoValue
        /\ \A i \in AcquiredEngines : session.engine = i

\* the events of a request that are calls on the engine's page: detection,
\* the lookup of a field's element, and the calls that fill an element
PageCalls == {"detect", "lookup"} \cup FillCalls

\* the calls the request of a step made on the page
PageCallsOf(events) == {k \in 1..Len(events) : events[k].ev \in PageCalls}

\* C18 as stated: a fill-resumption request (refill or answer) that finds
\* the engine's page closed, and does not move the engine to another page,
\* issues no detect, no element lookup and no fill: the engine re-validates
\* its page before the request touches it.
C18_NoCallOnClosedPage ==
    [][(/\ mode = "server"
        /\ session.engine # 0
        /\ ~engines[session.engine].page.open
        /\ last'.op \in {"refill", "answer"}
        /\ engines'[session.engine].others = engines[session.engine].others)
       => PageCallsOf(last'.events) = {}]_vars

\* the request of a step found the session's page gone: the liveness probe
\* of refill_autofill raised
ProbeRaised(request) ==
    request.op = "refill" /\ request.events # << >> /\ request.events[1] = Probe(TRUE)

\* the newest of the other pages of an engine's context
Newest(engine) == engine.others[Len(engine.others)]

FramedFieldsAt(doc, selector) ==
    {i \in 1..Len(DetectedFields[doc]) :
        /\ DetectedFields[doc][i].selector = selector
        /\ DetectedFields[doc][i].iframe_url # NoValue}

\* C20 as stated: every lookup a request of the session makes for a field
\* that was detected inside a frame of the page is made in that frame, not
\* in the main document, whether the request is the pass of an open, a
\* refill or the filling of the operator's answers.
C20_FramedFieldLookedUpInFrame ==
    (/\ mode = "server"
     /\ last.op \in {"open", "refill", "answer"}
     /\ session.engine # 0
     /\ engines[session.engine].page.open) =>
        \A k \in 1..Len(last.events) :
            last.events[k].ev = "lookup" =>
                \A i \in FramedFieldsAt(engines[session.engine].page.doc, last.events[k].target) :
                    last.events[k].value
                        = DetectedFields[engines[session.engine].page.doc][i].iframe_url

\* the answers a bank holds, in any of its three layers
StoredAnswers(bank) ==
    {bank.exact[i].v : i \in 1..Len(bank.exact)}
    \cup {bank.patterns[i].v : i \in 1..Len(bank.patterns)}
    \cup UNION {{bank.custom[c].v[i].v : i \in 1..Len(bank.custom[c].v)} :
                    c \in 1..Len(bank.custom)}

\* C21 as stated: the value the semantic-match step of the resolver
\* produces is the text of an answer stored in the bank: in every pass of
\* the server (which stores nothing), a value written into a field after
\* the resolver answered from the semantic match is an answer of the bank.
C21_SemanticMatchIsStoredAnswer ==
    (mode = "server" /\ last.op \in {"open", "refill"}) =>
        \A k \in ResolvedVia("llm_match") :
            \A j \in k + 1..Len(last.events) :
                (/\ last.events[j].ev \in WriteCalls
                 /\ last.events[j].target = last.events[k].target
                 /\ j <= k + 2) =>
                    last.events[j].value \in StoredAnswers(answers)

\* the generation prompts of the latest pass that the model answered with
\* the sentinel
SentinelReplies ==
    {k \in 1..Len(last.events) :
        /\ last.events[k].ev = "generate_answer_from_resume"
        /\ Contains(last.events[k].value, "UNKNOWN")}

\* C22: when the generation from the resume replies with the sentinel
\* UNKNOWN, the resolver yields no value and the field is left unresolved
\* (not filled, unless the operator typed an answer at the prompt), and no
\* pass writes a text holding the sentinel into a field.
C22_SentinelIsNoValue ==
    last.op \in PassOps =>
        /\ \A k \in SentinelReplies :
              /\ k < Len(last.events)
              /\ last.events[k + 1] = Event("resolve", last.events[k].target, "none")
              /\ \A i \in 1..Len(last.report.filled) :
                    (last.report.fields[i].selector = last.events[k].target /\ i \notin Answered)
                        => ~last.report.filled[i]
        /\ \A k \in 1..Len(last.events) :
              last.events[k].ev \in WriteCalls => ~Contains(last.events[k].value, "UNKNOWN")

\* a pass of the server in which the model answered the generation prompt
\* for a field with the sentinel, and the field is among the unfilled ones
C22_Witness ==
    /\ last.op = "open"
    /\ last.ok
    /\ \E k \in SentinelReplies :
          \E n \in 1..Len(session.unfilled_fields) :
              session.unfilled_fields[n].selector = last.events[k].target

\* the lookups the resolver made for the field of the resolve event k of
\* the latest pass: the events of that field before k
LookupsBefore(k) ==
    {j \in 1..(k - 1) :
        /\ last.events[j].target = last.events[k].target
        /\ last.events[j].ev \in {"get_answer", "check_answer_bank", "generate_answer_from_resume"}}

\* the lookups of a kind among those made before the resolve event k
LookupsOf(k, ev) == {j \in LookupsBefore(k) : last.events[j].ev = ev}

\* the first lookups of the resolver before event k found nothing: the
\* bank had no answer and, when asked is TRUE, the semantic match replied
\* NO_MATCH
NothingBefore(k, matched) ==
    /\ \E j \in LookupsOf(k, "get_answer") : last.events[j].value = NoValue
    /\ matched => \E j \in LookupsOf(k, "check_answer_bank") : last.events[j].value = "NO_MATCH"

\* C23 as stated: the resolver tries the profile mapping, the answer bank,
\* the semantic match of the LLM and the generation from the resume in this
\* order and returns the value of the first that yields one, without
\* consulting a later one; it has no value only when every strategy
\* yielded none; and the LLM is never consulted when it is unavailable.
C23_FirstHitWins ==
    last.op \in PassOps =>
        \A k \in 1..Len(last.events) :
            (last.events[k].ev = "resolve" /\ last.events[k].value # "raised") =>
                /\ ~llm_available =>
                      LookupsBefore(k) = LookupsOf(k, "get_answer")
                /\ last.events[k].value = "profile" =>
                      /\ LookupsBefore(k) = {}
                      /\ k < Len(last.events)
                      /\ last.events[k + 1].ev = "lookup"
                      /\ last.events[k + 1].target = last.events[k].target
                /\ last.events[k].value = "bank" =>
                      /\ LookupsBefore(k) = LookupsOf(k, "get_answer")
                      /\ \A j \in LookupsBefore(k) : last.events[j].value # NoValue
                /\ last.events[k].value = "llm_match" =>
                      /\ NothingBefore(k, FALSE)
                      /\ LookupsOf(k, "generate_answer_from_resume") = {}
                      /\ \E j \in LookupsOf(k, "check_answer_bank") :
                            last.events[j].value # "NO_MATCH"
                /\ last.events[k].value = "llm_generate" =>
                      /\ NothingBefore(k, TRUE)
                      /\ \E j \in LookupsOf(k, "generate_answer_from_resume") :
                            ~Contains(last.events[j].value, "UNKNOWN")
                /\ last.events[k].value = "none" =>
                      /\ NothingBefore(k, llm_available)
                      /\ llm_available =>
                            \E j \in LookupsOf(k, "generate_answer_from_resume") :
                                Contains(last.events[j].value, "UNKNOWN")

\* the categories of a mapping that list a text among their keywords
CategoriesOf(pattern_key, text) ==
    IF ~DictHas(VALUE_MAPPINGS, pattern_key) THEN {}
    ELSE {c \in 1..Len(DictGet(VALUE_MAPPINGS, pattern_key)) :
            \E i \in 1..Len(DictGet(VALUE_MAPPINGS, pattern_key)[c].keywords) :
                DictGet(VALUE_MAPPINGS, pattern_key)[c].keywords[i] = MapLower(text)}

\* the options of the latest call of find_matching_value
OfferedOptions ==
    {last.events[k].value : k \in {j \in 1..Len(last.events) : last.events[j].ev = "option"}}

\* C24 as stated: find_matching_value returns none or one of the options
\* it was given, none for a key the table lacks, and an option of the
\* category of the profile value: when the profile value and the option
\* returned are both keywords of the mapping, they are keywords of one
\* category (gender female with the options Male and Female gives Female).
C24_OptionOfTheProfileCategory ==
    last.op = "find_matching_value" =>
        LET pattern_key == last.events[1].target
            profile_value == last.events[1].value
            result == last.events[Len(last.events)].value
        IN  /\ result # NoValue => result \in OfferedOptions
            /\ ~DictHas(VALUE_MAPPINGS, pattern_key) => result = NoValue
            /\ (/\ result # NoValue
                /\ CategoriesOf(pattern_key, profile_value) # {}
                /\ CategoriesOf(pattern_key, result) # {})
               => CategoriesOf(pattern_key, profile_value) \cap CategoriesOf(pattern_key, result) # {}

\* the fields of the latest pass whose label is the literal Unknown
UnknownFields == {i \in 1..Len(last.report.fields) : last.report.fields[i].label = "Unknown"}

\* the document the latest pass detected its fields on
DetectedOn == {last.events[k].target : k \in {j \in 1..Len(last.events) : last.events[j].ev = "detect"}}

\* C25 as stated: a field labelled Unknown is part of the detection result
\* of a pass (and so of its total), but the operator is never asked for it:
\* it is not among the unfilled fields kept for the operator UI, and no
\* answer of the operator at the prompt of a pass is for such a field.
C25_UnknownNeverEscalated ==
    /\ \A n \in 1..Len(session.unfilled_fields) : session.unfilled_fields[n].label # "Unknown"
    /\ last.op \in PassOps =>
          /\ \A d \in DetectedOn : last.report.fields = DetectedFields[d]
          /\ \A i \in UnknownFields :
                \A k \in 1..Len(last.events) :
                    last.events[k].ev = "answer" => last.events[k].target # last.report.fields[i].selector

\* ---- C26 ----

\* the value of the one call named ev of the latest request
AttributeRead(ev) ==
    LET i == CHOOSE i \in 1..Len(last.events) : last.events[i].ev = ev
    IN  last.events[i].value

\* the data attributes the latest request read, in the order of the markup
DataRead == SelectSeq(last.events, LAMBDA e : e.ev = "data")

\* the data attribute the third strategy names: of the automation and
\* test-id style attributes the one highest in the preference, else the
\* first attribute of the element
DataChosen ==
    LET named(n) == \E i \in 1..Len(DataRead) : DataRead[i].target = n
        of(n) == CHOOSE e \in {DataRead[i] : i \in 1..Len(DataRead)} : e.target = n
    IN  IF named("data-automation-id") THEN of("data-automation-id")
        ELSE IF named("data-testid") THEN of("data-testid")
        ELSE IF named("data-field") THEN of("data-field")
        ELSE IF named("data-qa") THEN of("data-qa")
        ELSE DataRead[1]

\* what each of the seven strategies gives for the element of the latest
\* request, in the order of their priority (empty: the strategy fails)
Strategies ==
    << IF AttributeRead("id") # NoValue THEN "#" \o AttributeRead("id") ELSE NoValue,
       IF AttributeRead("name") # NoValue
       THEN "[name=\"" \o AttributeRead("name") \o "\"]" ELSE NoValue,
       IF DataRead # << >>
       THEN "[" \o DataChosen.target \o "=\"" \o DataChosen.value \o "\"]" ELSE NoValue,
       IF AttributeRead("aria-label") # NoValue
       THEN "[aria-label=\"" \o Escaped(AttributeRead("aria-label")) \o "\"]" ELSE NoValue,
       IF AttributeRead("placeholder") # NoValue
       THEN "[placeholder=\"" \o Escaped(AttributeRead("placeholder")) \o "\"]" ELSE NoValue,
       IF AttributeRead("autocomplete") \notin {NoValue, "off", "on"}
       THEN "input[autocomplete=\"" \o AttributeRead("autocomplete") \o "\"]" ELSE NoValue,
       AttributeRead("path") >>

\* the fields the latest request returned
FieldsReturned == SelectSeq(last.events, LAMBDA e : e.ev = "field")

TextCalls == {"click", "wait_for_timeout", "fill", "press"}

\* the text-like elements of the model with a dropdown signal, and those
\* without one, by their selector
TextLike(el) == DetectedType(el) \notin {"file", "select", "checkbox"} /\ el.type # "hidden"
SignalSelectors == {_build_selector(el) : el \in {e \in AllElements : TextLike(e) /\ is_dropdown(e)}}
PlainSelectors == {_build_selector(el) : el \in {e \in AllElements : TextLike(e) /\ ~is_dropdown(e)}}

\* the positions of the calls made on the element that the lookup at
\* position k of the latest request found
CallsOn(k) ==
    LET on(j) == /\ last.events[j].ev \in TextCalls
                 /\ last.events[j].target = last.events[k].target
    IN  {j \in (k + 1)..Len(last.events) : \A i \in (k + 1)..j : on(i)}

\* the names of the events at the positions S, in their order, as the
\* set of pairs of positions that follow one another
Follows(S, first, second) ==
    \E i \in S, j \in S : i < j /\ last.events[i].ev = first /\ last.events[j].ev = second

\* C27 as stated: a text-like field with a dropdown signal is filled by
\* click, write, wait, Enter in this order (each once, a wait before the
\* key press), a field without a signal by an assignment and never a click
\* or a key press, and a field with a signal is never left with an
\* assignment that no Enter key follows, also when a step raised.
C27_TypeAheadOrNothing ==
    last.op \in PassOps \cup {"answer"} =>
        \A k \in 1..Len(last.events) :
            (last.events[k].ev = "lookup" /\ CallsOn(k) # {}) =>
                LET S == CallsOn(k)
                    n(ev) == Cardinality({j \in S : last.events[j].ev = ev})
                IN  /\ last.events[k].target \in PlainSelectors =>
                          n("click") = 0 /\ n("press") = 0 /\ n("fill") >= 1
                    /\ last.events[k].target \in SignalSelectors =>
                          /\ n("fill") >= 1 => Follows(S, "fill", "press")
                          /\ n("press") = 1 =>
                                /\ n("click") = 1 /\ n("fill") = 1
                                /\ Follows(S, "click", "fill")
                                /\ \E w \in S, p \in S, f \in S :
                                      /\ last.events[f].ev = "fill"
                                      /\ last.events[w].ev = "wait_for_timeout"
                                      /\ last.events[p].ev = "press"
                                      /\ f < w /\ w < p
                                      /\ last.events[p].value = "Enter"

\* ---- C28 ----

\* the positions of the latest request's calls named ev
CallsNamed(ev) == {j \in 1..Len(last.events) : last.events[j].ev = ev}

\* the positions at which the click on an Apply button opened a new tab
NewTabs == {k \in CallsNamed("expect_page") : last.events[k].value = "opened"}

\* the calls of detection and of a fill
DetectOrFill == {"detect", "lookup"} \cup TextCalls \cup FillCalls

MarkedFilled == {i \in 1..Len(last.report.filled) : last.report.filled[i]}

C30_ClosedSessionIsEmpty ==
    [][/\ (mode = "server" /\ last'.op = "close") =>
              /\ last'.ok
              /\ session' = NoSession
       /\ (mode = "server" /\ last.op = "close" /\ last'.op = "close") =>
              /\ session' = session
              /\ engines' = engines
       /\ (mode = "server" /\ session.engine = 0 /\ last'.op \in {"refill", "answer"}) =>
              /\ ~last'.ok /\ last'.error = "no_session"
              /\ last'.events = << >>
              /\ UNCHANGED <<bankVars, session, engines, submitted>>]_vars
====
